---- MODULE Spec2Model ----
(***************************************************************************)
(* RTMP ingress engine of streamany: the accept loop and handshake of      *)
(* core/rtmp.ts, its chunk reader, the message reassembly and dispatch of  *)
(* core/messages.ts and the chunk writer of core/chunk.ts.                 *)
(*                                                                         *)
(* A Uint8Array is modelled exactly, as the canonical run-length encoding  *)
(* of its bytes: a sequence of runs [b |-> byte, n |-> count] with n > 0   *)
(* and no two adjacent runs of the same byte.  Two arrays are equal iff    *)
(* their encodings are equal.                                              *)
(***************************************************************************)
EXTENDS Integers, Sequences, FiniteSets, TLC

VARIABLES
    listener,       \* "listening" | "stopped" (loop left by break) | "crashed" (uncaught throw)
    conn,           \* number of connections accepted so far (the current one)
    pc,             \* the await at which the single server task is suspended
    hs,             \* the handshake's locals: s1_time, s1_random, c1_time, c1_zero, c1_randome
    written,        \* the conn.write calls made on the current connection, in order
    sockbuf,        \* bytes of the current connection that arrived and are unread
    inflight,       \* TCP segments the peer sent that have not arrived yet
    peer,           \* the client driving the current connection
    chunkSizeRef,   \* the module-level let chunkSizeRef = { value: 128 }
    chunk_header,   \* readChunk's chunk_header
    chunk,          \* the chunk messagesFromChunks is processing (seq: arrival number)
    messageStreams, \* messagesFromChunks' Map: chunk stream id -> message under reassembly
    yielded,        \* the message messagesFromChunks is suspended on, if any
    out,            \* every message yielded to the dispatcher so far, in order
    lastRead,       \* the last read(conn, size) call: size asked, n returned (-1: null)
    pending,        \* the sends of async functions called without await, not yet written
    amf,            \* a call of the codec of core/amf.ts: its value, buffer and result
    relay           \* core/relay.ts: ffmpeg_process, item1, item2 and the calls of the
                    \* Deno.serve handler under way

vars == <<listener, conn, pc, hs, written, sockbuf, inflight, peer, chunkSizeRef,
          chunk_header, chunk, messageStreams, yielded, out, lastRead, pending,
          amf, relay>>

-----------------------------------------------------------------------------
(* Byte arrays *)

\* what JavaScript yields for an index outside an array: undefined
Undefined == -1

Min(a, b) == IF a < b THEN a ELSE b
Max(a, b) == IF a > b THEN a ELSE b

Run(b, n) == IF n <= 0 THEN <<>> ELSE <<[b |-> b, n |-> n]>>

BCat(x, y) ==
    IF x = <<>> THEN y
    ELSE IF y = <<>> THEN x
    ELSE IF x[Len(x)].b = y[1].b
         THEN SubSeq(x, 1, Len(x) - 1)
              \o <<[b |-> y[1].b, n |-> x[Len(x)].n + y[1].n]>>
              \o Tail(y)
         ELSE x \o y

\* (the operators on runs halve their argument, to keep the evaluation shallow)
RECURSIVE BLen(_)
BLen(x) ==
    IF x = <<>> THEN 0
    ELSE IF Len(x) = 1 THEN x[1].n
    ELSE BLen(SubSeq(x, 1, Len(x) \div 2)) + BLen(SubSeq(x, Len(x) \div 2 + 1, Len(x)))

RECURSIVE BTake(_, _)
BTake(x, k) ==
    IF k <= 0 \/ x = <<>> THEN <<>>
    ELSE IF Len(x) = 1 THEN <<[b |-> x[1].b, n |-> Min(k, x[1].n)]>>
    ELSE LET left == SubSeq(x, 1, Len(x) \div 2)
             right == SubSeq(x, Len(x) \div 2 + 1, Len(x))
         IN  IF k <= BLen(left) THEN BTake(left, k)
             ELSE left \o BTake(right, k - BLen(left))

RECURSIVE BDrop(_, _)
BDrop(x, k) ==
    IF k <= 0 \/ x = <<>> THEN x
    ELSE IF Len(x) = 1
    THEN IF x[1].n > k THEN <<[b |-> x[1].b, n |-> x[1].n - k]>> ELSE <<>>
    ELSE LET left == SubSeq(x, 1, Len(x) \div 2)
             right == SubSeq(x, Len(x) \div 2 + 1, Len(x))
         IN  IF k < BLen(left) THEN BDrop(left, k) \o right
             ELSE BDrop(right, k - BLen(left))

\* Uint8Array.prototype.slice(from, to), 0 <= from <= to
BSlice(x, from, to) == BTake(BDrop(x, from), to - from)

\* x[i], 0-based
RECURSIVE BAt(_, _)
BAt(x, i) ==
    IF x = <<>> \/ i < 0 THEN Undefined
    ELSE IF Len(x) = 1 THEN IF i < x[1].n THEN x[1].b ELSE Undefined
    ELSE LET left == SubSeq(x, 1, Len(x) \div 2)
             right == SubSeq(x, Len(x) \div 2 + 1, Len(x))
         IN  IF i < BLen(left) THEN BAt(left, i) ELSE BAt(right, i - BLen(left))

\* new Uint8Array([...])
RECURSIVE Bytes(_)
Bytes(s) ==
    IF s = <<>> THEN <<>>
    ELSE IF Len(s) = 1 THEN Run(s[1], 1)
    ELSE BCat(Bytes(SubSeq(s, 1, Len(s) \div 2)), Bytes(SubSeq(s, Len(s) \div 2 + 1, Len(s))))

\* the array x with x[i] replaced by v, 0 <= i < length
BSet(x, i, v) == BCat(BCat(BTake(x, i), Run(v, 1)), BDrop(x, i + 1))

\* target.set(src, offset) for a target long enough to hold it
BOverlay(target, src, offset) ==
    BCat(BCat(BTake(target, offset), src), BDrop(target, offset + BLen(src)))

\* (b0 << 24) | (b1 << 16) | (b2 << 8) | b3: JavaScript's << and | work on
\* signed 32-bit integers, so a first byte of 128 or more gives a negative number
ShiftOr4(b0, b1, b2, b3) ==
    (IF b0 >= 128 THEN b0 - 256 ELSE b0) * 16777216 + b1 * 65536 + b2 * 256 + b3

-----------------------------------------------------------------------------
(* core/rtmp.ts: integer decoding *)

byte_3_to_number(bytes) ==
    BAt(bytes, 0) * 65536 + BAt(bytes, 1) * 256 + BAt(bytes, 2)

byte_4_to_number(bytes) ==
    ShiftOr4(BAt(bytes, 0), BAt(bytes, 1), BAt(bytes, 2), BAt(bytes, 3))

-----------------------------------------------------------------------------
(* core/chunk.ts: the chunk writer *)

\* x || y on numbers: y when x is undefined or 0
OrElse(x, y) == IF x = Undefined \/ x = 0 THEN y ELSE x

\* (v >> k) & 0xFF for 0 <= v < 2^31, k a multiple of 8
ByteOf(v, k) == (v \div (2 ^ k)) % 256

\* the one buffer sendChunk hands to conn.write
sendChunk(c) ==
    LET basicHeader ==
            IF c.chunkStreamId < 64
            THEN Bytes(<<(c.fmt * 64 + c.chunkStreamId) % 256>>)
            ELSE IF c.chunkStreamId < 320
            THEN Bytes(<<c.fmt * 64, (c.chunkStreamId - 64) % 256>>)
            ELSE Bytes(<<c.fmt * 64 + 1, ByteOf(c.chunkStreamId - 64, 0),
                         ByteOf(c.chunkStreamId - 64, 8)>>)
        timestamp == OrElse(c.timestamp, 0)
        messageLength == OrElse(c.messageLength, BLen(c.data))
        messageStreamId == OrElse(c.messageStreamId, 0)
        messageHeader ==
            CASE c.fmt = 0 ->
                   Bytes(<<ByteOf(timestamp, 16), ByteOf(timestamp, 8), ByteOf(timestamp, 0),
                           ByteOf(messageLength, 16), ByteOf(messageLength, 8),
                           ByteOf(messageLength, 0),
                           OrElse(c.messageTypeId, 0) % 256,
                           ByteOf(messageStreamId, 0), ByteOf(messageStreamId, 8),
                           ByteOf(messageStreamId, 16), ByteOf(messageStreamId, 24)>>)
              [] c.fmt = 1 ->
                   Bytes(<<ByteOf(timestamp, 16), ByteOf(timestamp, 8), ByteOf(timestamp, 0),
                           ByteOf(messageLength, 16), ByteOf(messageLength, 8),
                           ByteOf(messageLength, 0),
                           OrElse(c.messageTypeId, 0) % 256>>)
              [] c.fmt = 2 ->
                   Bytes(<<ByteOf(timestamp, 16), ByteOf(timestamp, 8), ByteOf(timestamp, 0)>>)
              [] c.fmt = 3 -> <<>>
    IN  BCat(BCat(basicHeader, messageHeader), c.data)

\* a Type 0 chunk with the full header at every offset of the payload
type0Chunk(message, chunkStreamId, messageStreamId, chunkSize, offset) ==
    [fmt |-> 0, chunkStreamId |-> chunkStreamId, timestamp |-> 0,
     messageLength |-> BLen(message.payload), messageTypeId |-> message.type,
     messageStreamId |-> messageStreamId,
     data |-> BSlice(message.payload, offset, offset + chunkSize)]

\* the chunk sendMessage builds at one offset of the payload
messageChunk(message, chunkStreamId, messageStreamId, chunkSize, offset) ==
    LET chunkData == BSlice(message.payload, offset, offset + chunkSize)
    IN  IF offset = 0
        THEN [fmt |-> 0, chunkStreamId |-> chunkStreamId, timestamp |-> 0,
              messageLength |-> BLen(message.payload), messageTypeId |-> message.type,
              messageStreamId |-> messageStreamId, data |-> chunkData]
        ELSE [fmt |-> 3, chunkStreamId |-> chunkStreamId, timestamp |-> Undefined,
              messageLength |-> Undefined, messageTypeId |-> Undefined,
              messageStreamId |-> Undefined, data |-> chunkData]

\* the buffers sendMessage writes from `offset` on, one conn.write per chunk
RECURSIVE sendMessageFrom(_, _, _, _, _)
sendMessageFrom(message, chunkStreamId, messageStreamId, chunkSize, offset) ==
    IF offset < BLen(message.payload)
    THEN <<sendChunk(messageChunk(message, chunkStreamId, messageStreamId, chunkSize, offset))>>
         \o sendMessageFrom(message, chunkStreamId, messageStreamId, chunkSize,
                            offset + chunkSize)
    ELSE <<>>

sendMessage(message, chunkStreamId, messageStreamId, chunkSize) ==
    sendMessageFrom(message, chunkStreamId, messageStreamId, chunkSize, 0)

-----------------------------------------------------------------------------
(* core/rtmp.ts: the chunk reader *)

InitialChunkSize == 128

C0Len == 1
TimeLen == 4
ZeroLen == 4
RandomLen == 1528
BlockLen == 1536
RtmpVersion == 3
ExtendedTimestampMarker == 16777215

\* what conn.read can return for a buffer of `size` bytes: every byte that has
\* arrived, up to size; null (n = -1) at end of stream; 0 at once for an empty buffer
EndOfStream == sockbuf = <<>> /\ inflight = <<>> /\ peer.closed

ReadReady(size) == size <= 0 \/ sockbuf # <<>> \/ EndOfStream

read(size) ==
    IF size = 0 THEN [n |-> 0, buf |-> <<>>]
    ELSE IF sockbuf # <<>>
    THEN LET got == BTake(sockbuf, size) IN [n |-> BLen(got), buf |-> got]
    ELSE [n |-> -1, buf |-> <<>>]

readBasicHeader(header_1) ==
    [fmt |-> header_1 \div 64,
     chunk_stream_id |-> IF header_1 = 0 THEN header_1
                         ELSE IF header_1 = 1 THEN header_1
                         ELSE header_1 % 64]

\* the size readMessageHeader asks read for
MessageHeaderSize(fmt) ==
    CASE fmt = 0 -> 11
      [] fmt = 1 -> 7
      [] fmt = 2 -> 7
      [] fmt = 3 -> 0

\* readMessageHeader throws: read returned too few bytes for a slice that
\* byte_3_to_number / byte_4_to_number asserts the length of
messageHeaderThrows(fmt, header) ==
    CASE fmt = 0 -> BLen(header) < 11
      [] fmt = 1 -> BLen(header) < 6
      [] fmt = 2 -> BLen(header) < 3
      [] fmt = 3 -> FALSE

\* the message_header readMessageHeader returns for the bytes read returned
readMessageHeader(fmt, header) ==
    CASE fmt = 0 ->
           [type |-> 0,
            timestamp |-> byte_3_to_number(BSlice(header, 0, 3)),
            message_length |-> byte_3_to_number(BSlice(header, 3, 6)),
            message_type_id |-> BAt(header, 6),
            message_stream_id |-> byte_4_to_number(BSlice(header, 7, 11))]
      [] fmt = 1 ->
           [type |-> 1,
            timestamp |-> byte_3_to_number(BSlice(header, 0, 3)),
            message_length |-> byte_3_to_number(BSlice(header, 3, 6)),
            message_type_id |-> BAt(header, 6)]
      [] fmt = 2 ->
           [type |-> 2,
            timestamp |-> byte_3_to_number(BSlice(header, 0, 3))]
      [] fmt = 3 -> [type |-> 3]

\* readChunkHeader's throw "not implemented"
NeedsExtendedTimestamp(message_header) ==
    message_header.type # 3 /\ message_header.timestamp = ExtendedTimestampMarker

\* readChunk's sizeToRead
sizeToRead(header, chunkSize) ==
    IF header.message_header.type = 0 /\ header.message_header.message_length < chunkSize
    THEN header.message_header.message_length
    ELSE chunkSize

-----------------------------------------------------------------------------
(* core/messages.ts: messagesFromChunks and assembleMessage *)

NoMessage == [resume |-> "none"]
NoChunk == [seq |-> 0]
NoHeader == [chunk_stream_id |-> Undefined]
NoRead == [size |-> 0, n |-> 0]

Has(map, key) == key \in DOMAIN map
Put(map, key, value) == [k \in DOMAIN map \cup {key} |-> IF k = key THEN value ELSE map[k]]

\* the copy loop of assembleMessage
RECURSIVE copyChunks(_, _, _, _)
copyChunks(chunks, totalLength, payload, offset) ==
    IF chunks = <<>> THEN payload
    ELSE LET dataToWrite == Min(BLen(chunks[1].data), totalLength - offset)
             copied == BOverlay(payload, BTake(chunks[1].data, dataToWrite), offset)
         IN  IF offset + dataToWrite >= totalLength THEN copied
             ELSE copyChunks(Tail(chunks), totalLength, copied, offset + dataToWrite)

assembleMessage(messageStream) ==
    [header |-> messageStream.messageHeader,
     payload |-> copyChunks(messageStream.chunks, messageStream.totalLength,
                            Run(0, messageStream.totalLength), 0)]

\* the record messagesFromChunks stores when a Type 0 chunk starts a message
newMessageStream(header) ==
    [messageHeader |-> [type |-> header.message_type_id,
                        payload_length |-> header.message_length,
                        timestamp |-> header.timestamp,
                        message_stream_id |-> header.message_stream_id],
     totalLength |-> header.message_length,
     collectedLength |-> 0,
     chunks |-> <<>>]

\* resetMessageStream forgetting to empty the chunk list
resetKeepingChunks(messageStream) ==
    [messageHeader |-> messageStream.messageHeader,
     totalLength |-> 0,
     collectedLength |-> 0,
     chunks |-> messageStream.chunks]

\* the record messagesFromChunks stores after it yielded a complete message
resetMessageStream(messageStream) ==
    [messageHeader |-> messageStream.messageHeader,
     totalLength |-> 0,
     collectedLength |-> 0,
     chunks |-> <<>>]

\* messageStream.chunks.push(chunk); messageStream.collectedLength += chunk.data.length
addChunk(messageStream, c) ==
    [messageStream EXCEPT !.chunks = Append(@, c),
                          !.collectedLength = @ + BLen(c.data)]

\* a yielded message as the dispatcher sees it, with the arrival numbers of the
\* first and last chunk it was built from and of the chunk that made it yield
Emission(messageStream, c, resume) ==
    [message |-> assembleMessage(messageStream),
     csid |-> c.header.chunk_stream_id,
     first |-> messageStream.chunks[1].seq,
     last |-> messageStream.chunks[Len(messageStream.chunks)].seq,
     trigger |-> c.seq,
     partial |-> resume = "start",
     resume |-> resume]

\* messagesFromChunks from "Start a new message" to its next suspension: the
\* map it leaves and the message it yields (NoMessage: it awaits the next chunk)
startAndAdd(map, c) ==
    LET chunkStreamId == c.header.chunk_stream_id
        isType0 == c.header.message_header.type = 0
    IN  IF ~isType0 /\ ~Has(map, chunkStreamId)
        THEN [map |-> map, yield |-> NoMessage]
        ELSE LET messageStream ==
                     addChunk(IF isType0 THEN newMessageStream(c.header.message_header)
                              ELSE map[chunkStreamId], c)
                 stored == Put(map, chunkStreamId, messageStream)
             IN  IF messageStream.collectedLength >= messageStream.totalLength
                 THEN [map |-> stored, yield |-> Emission(messageStream, c, "reset")]
                 ELSE [map |-> stored, yield |-> NoMessage]

\* messagesFromChunks without the yield of a pending message before a Type 0
\* chunk starts the next one
startOver(map, c) == startAndAdd(map, c)

\* messagesFromChunks from the arrival of chunk c to its next suspension
onChunk(map, c) ==
    LET chunkStreamId == c.header.chunk_stream_id
    IN  IF /\ c.header.message_header.type = 0
           /\ Has(map, chunkStreamId)
           /\ map[chunkStreamId].collectedLength > 0
        THEN [map |-> map, yield |-> Emission(map[chunkStreamId], c, "start")]
        ELSE startAndAdd(map, c)

\* messagesFromChunks resumed after the yield `y` was handled
afterYield(map, c, y) ==
    IF y.resume = "start" THEN startAndAdd(map, c)
    ELSE [map |-> Put(map, c.header.chunk_stream_id,
                      resetMessageStream(map[c.header.chunk_stream_id])),
          yield |-> NoMessage]

\* the partial messages of a map, as emissions
flushOnEnd(map) ==
    LET RECURSIVE flush(_)
        flush(csids) ==
            IF csids = {} THEN <<>>
            ELSE LET csid == CHOOSE c \in csids : \A d \in csids : c <= d
                     rest == flush(csids \ {csid})
                 IN  IF map[csid].chunks = <<>> THEN rest
                     ELSE <<[message |-> assembleMessage(map[csid]),
                             csid |-> csid,
                             first |-> map[csid].chunks[1].seq,
                             last |-> map[csid].chunks[Len(map[csid].chunks)].seq,
                             trigger |-> map[csid].chunks[Len(map[csid].chunks)].seq,
                             partial |-> TRUE,
                             resume |-> "end"]>> \o rest
    IN  flush(DOMAIN map)

\* the messages messagesFromChunks yields when its for await over the chunks
\* ends: none, the function returns
onEnd(map) == <<>>

-----------------------------------------------------------------------------
(* core/amf.ts: AMF0 values, decoder and encoder *)

AMF0_NUMBER == 0
AMF0_BOOLEAN == 1
AMF0_STRING == 2
AMF0_OBJECT == 3
AMF0_NULL == 5
AMF0_UNDEFINED == 6
AMF0_ECMA_ARRAY == 8
AMF0_OBJECT_END == 9
AMF0_STRICT_ARRAY == 10
AMF0_DATE == 11
AMF0_LONG_STRING == 12

\* U+FFFD, which TextDecoder puts in the place of a byte that is not UTF-8
ReplacementCharacter == 65533

\* no call of the codec is under way
NoCall == [stage |-> "none"]

\* In this section a buffer is the plain sequence of its bytes.
RECURSIVE ByteSeq(_)
ByteSeq(x) ==
    IF x = <<>> THEN <<>>
    ELSE IF Len(x) = 1 THEN [i \in 1..x[1].n |-> x[1].b]
    ELSE ByteSeq(SubSeq(x, 1, Len(x) \div 2)) \o ByteSeq(SubSeq(x, Len(x) \div 2 + 1, Len(x)))

\* JavaScript values: a number is its eight IEEE 754 bytes, a string its code
\* points, an object its own properties in insertion order, an array its
\* elements followed by `nulls` nulls
Num(bits) == [t |-> "number", bits |-> bits]
Bool(v) == [t |-> "boolean", v |-> v]
Str(s) == [t |-> "string", s |-> s]
Obj(props) == [t |-> "object", props |-> props]
Arr(items, nulls) == [t |-> "array", items |-> items, nulls |-> nulls]
Date(bits) == [t |-> "date", bits |-> bits]
Null == [t |-> "null"]
Undef == [t |-> "undefined"]

\* buffer[i]
At(buffer, i) == IF i >= 0 /\ i < Len(buffer) THEN buffer[i + 1] ELSE Undefined

\* buffer[i] as an operand of << or |: undefined counts as 0
BitsAt(buffer, i) == IF i >= 0 /\ i < Len(buffer) THEN buffer[i + 1] ELSE 0

\* buffer.slice(from, to): a negative index counts from the end
Slice(buffer, from, to) ==
    SubSeq(buffer,
           (IF from < 0 THEN Max(Len(buffer) + from, 0) ELSE Min(from, Len(buffer))) + 1,
           IF to < 0 THEN Max(Len(buffer) + to, 0) ELSE Min(to, Len(buffer)))

\* new TextDecoder().decode(data) for bytes below 128 and for stray bytes of
\* 128 and above (well-formed multi-byte sequences are not modelled)
TextDecoder(data) ==
    [i \in DOMAIN data |-> IF data[i] < 128 THEN data[i] ELSE ReplacementCharacter]

\* new TextEncoder().encode(value) for code points below 128 and U+FFFD
RECURSIVE TextEncoder(_)
TextEncoder(value) ==
    IF value = <<>> THEN <<>>
    ELSE IF Len(value) = 1
    THEN (IF value[1] < 128 THEN <<value[1]>> ELSE <<239, 191, 189>>)
    ELSE TextEncoder(SubSeq(value, 1, Len(value) \div 2))
         \o TextEncoder(SubSeq(value, Len(value) \div 2 + 1, Len(value)))

Parsed(status, value, newPosition) ==
    [status |-> status, value |-> value, newPosition |-> newPosition]

\* obj[propertyName] = value
SetProperty(obj, propertyName, value) ==
    IF \E k \in DOMAIN obj : obj[k].key = propertyName
    THEN [k \in DOMAIN obj |->
             IF obj[k].key = propertyName THEN [key |-> propertyName, value |-> value]
             ELSE obj[k]]
    ELSE Append(obj, [key |-> propertyName, value |-> value])

\* parseAMF0Value and its loops. loop "value": parseAMF0Value(buffer, position).
\* loop "properties": the while (true) of OBJECT and ECMA_ARRAY with obj == acc.
\* loop "elements": the for of STRICT_ARRAY with array == acc and `remaining`
\* elements to go.
\* Status "RangeError": new DataView(buffer.buffer, position, 8) does not fit.
\* Status "loop": the while (true) is at a position past the buffer, where
\* every length reads as 0, no byte is OBJECT_END and every value is an
\* unsupported type, so it never ends. Past the buffer every element of a
\* strict array is an unsupported type: null, one position further.
RECURSIVE parseAMF0(_, _, _, _, _)
parseAMF0(loop, buffer, position, acc, remaining) ==
    LET type == At(buffer, position)
        p == position + 1
        length16 == BitsAt(buffer, p) * 256 + BitsAt(buffer, p + 1)
        length32 == ShiftOr4(BitsAt(buffer, p), BitsAt(buffer, p + 1),
                             BitsAt(buffer, p + 2), BitsAt(buffer, p + 3))
        propertyNameLength == BitsAt(buffer, position) * 256 + BitsAt(buffer, position + 1)
        start == position + 2
        r == parseAMF0("value", buffer,
                       IF loop = "properties" THEN start + propertyNameLength ELSE position,
                       <<>>, 0)
    IN  CASE loop = "properties" ->
               IF position >= Len(buffer) THEN Parsed("loop", Obj(acc), position)
               ELSE IF propertyNameLength = 0 /\ At(buffer, start) = AMF0_OBJECT_END
               THEN Parsed("ok", Obj(acc), start + 1)
               ELSE IF r.status # "ok" THEN r
               ELSE parseAMF0("properties", buffer, r.newPosition,
                              SetProperty(acc,
                                  TextDecoder(Slice(buffer, start, start + propertyNameLength)),
                                  r.value), 0)
          [] loop = "elements" ->
               IF remaining <= 0 THEN Parsed("ok", Arr(acc, 0), position)
               ELSE IF position >= Len(buffer)
               THEN Parsed("ok", Arr(acc, remaining), position + remaining)
               ELSE IF r.status # "ok" THEN r
               ELSE parseAMF0("elements", buffer, r.newPosition, Append(acc, r.value),
                              remaining - 1)
          [] loop = "value" /\ type = AMF0_NUMBER ->
               IF p + 8 > Len(buffer) THEN Parsed("RangeError", Null, p)
               ELSE Parsed("ok", Num(Slice(buffer, p, p + 8)), p + 8)
          [] loop = "value" /\ type = AMF0_BOOLEAN ->
               Parsed("ok", Bool(At(buffer, p) # 0), p + 1)
          [] loop = "value" /\ type = AMF0_STRING ->
               Parsed("ok", Str(TextDecoder(Slice(buffer, p + 2, p + 2 + length16))),
                      p + 2 + length16)
          [] loop = "value" /\ type = AMF0_OBJECT -> parseAMF0("properties", buffer, p, <<>>, 0)
          [] loop = "value" /\ type = AMF0_NULL -> Parsed("ok", Null, p)
          [] loop = "value" /\ type = AMF0_UNDEFINED -> Parsed("ok", Undef, p)
          [] loop = "value" /\ type = AMF0_ECMA_ARRAY ->
               parseAMF0("properties", buffer, p + 4, <<>>, 0)
          [] loop = "value" /\ type = AMF0_STRICT_ARRAY ->
               parseAMF0("elements", buffer, p + 4, <<>>, length32)
          [] loop = "value" /\ type = AMF0_DATE ->
               IF p + 8 > Len(buffer) THEN Parsed("RangeError", Null, p)
               ELSE Parsed("ok", Date(Slice(buffer, p, p + 8)), p + 10)
          [] loop = "value" /\ type = AMF0_LONG_STRING ->
               Parsed("ok", Str(TextDecoder(Slice(buffer, p + 4, p + 4 + length32))),
                      p + 4 + length32)
          [] OTHER -> Parsed("ok", Null, p)

parseAMF0Value(buffer, position) == parseAMF0("value", buffer, position, <<>>, 0)

\* the while (position < buffer.length) loop of parseAMF0Command
RECURSIVE parseParams(_, _, _)
parseParams(buffer, position, additionalParams) ==
    IF position >= Len(buffer) THEN Parsed("ok", additionalParams, position)
    ELSE LET r == parseAMF0Value(buffer, position)
         IN  IF r.status # "ok" THEN r
             ELSE parseParams(buffer, r.newPosition, Append(additionalParams, r.value))

\* the command name, the transaction id and the command object, one after the other
RECURSIVE parseFirst(_, _, _, _)
parseFirst(buffer, position, values, n) ==
    IF n = 0 THEN Parsed("ok", values, position)
    ELSE LET r == parseAMF0Value(buffer, position)
         IN  IF r.status # "ok" THEN r
             ELSE parseFirst(buffer, r.newPosition, Append(values, r.value), n - 1)

\* what parseAMF0Command returns after its first three values and its params
commandOf(first, params) ==
    IF params.status # "ok"
    THEN [status |-> params.status, commandName |-> Null, transactionId |-> Null,
          commandObject |-> Null, additionalParams |-> <<>>]
    ELSE [status |-> "ok", commandName |-> first.value[1],
          transactionId |-> first.value[2], commandObject |-> first.value[3],
          additionalParams |-> params.value]

paramsAfter(buffer, first) ==
    IF first.status = "ok" THEN parseParams(buffer, first.newPosition, <<>>) ELSE first

parseAMF0Command(buffer) ==
    commandOf(parseFirst(buffer, 0, <<>>, 3),
              paramsAfter(buffer, parseFirst(buffer, 0, <<>>, 3)))

\* encodeAMF0Value and its loops. loop "value": encodeAMF0Value(x). loop
\* "properties": the key and value buffers of the Object.entries x. loop
\* "elements": the buffers of the values x, one after the other.
\* (Date.prototype.getTime is taken to return the number the Date was made of.)
RECURSIVE encodeAMF0(_, _)
encodeAMF0(loop, x) ==
    LET n == IF loop # "value" THEN 0
             ELSE IF x.t = "string" THEN Len(TextEncoder(x.s))
             ELSE IF x.t = "array" THEN Len(x.items) + x.nulls
             ELSE 0
        keyLength == IF loop = "properties" /\ x # <<>> THEN Len(TextEncoder(x[1].key)) ELSE 0
    IN  CASE loop = "properties" ->
               IF x = <<>> THEN <<>>
               ELSE <<ByteOf(keyLength, 8), ByteOf(keyLength, 0)>> \o TextEncoder(x[1].key)
                    \o encodeAMF0("value", x[1].value) \o encodeAMF0("properties", Tail(x))
          [] loop = "elements" ->
               IF x = <<>> THEN <<>>
               ELSE encodeAMF0("value", x[1]) \o encodeAMF0("elements", Tail(x))
          [] loop = "value" /\ x.t = "number" -> <<AMF0_NUMBER>> \o x.bits
          [] loop = "value" /\ x.t = "boolean" -> <<AMF0_BOOLEAN, IF x.v THEN 1 ELSE 0>>
          [] loop = "value" /\ x.t = "string" ->
               IF n <= 65535
               THEN <<AMF0_STRING, ByteOf(n, 8), ByteOf(n, 0)>> \o TextEncoder(x.s)
               ELSE <<AMF0_LONG_STRING, ByteOf(n, 24), ByteOf(n, 16), ByteOf(n, 8),
                      ByteOf(n, 0)>> \o TextEncoder(x.s)
          [] loop = "value" /\ x.t = "null" -> <<AMF0_NULL>>
          [] loop = "value" /\ x.t = "undefined" -> <<AMF0_UNDEFINED>>
          [] loop = "value" /\ x.t = "array" ->
               <<AMF0_STRICT_ARRAY, ByteOf(n, 24), ByteOf(n, 16), ByteOf(n, 8), ByteOf(n, 0)>>
               \o encodeAMF0("elements", x.items) \o [i \in 1..x.nulls |-> AMF0_NULL]
          [] loop = "value" /\ x.t = "date" -> <<AMF0_DATE>> \o x.bits \o <<0, 0>>
          [] loop = "value" /\ x.t = "object" ->
               <<AMF0_OBJECT>> \o encodeAMF0("properties", x.props)
               \o <<0, 0, AMF0_OBJECT_END>>

\* an encoder that writes the null marker for every value
encodeAsNull(value) == <<AMF0_NULL>>

encodeAMF0Value(value) == encodeAMF0("value", value)

\* what JavaScript's || and if take for false
Falsy(value) ==
    \/ value.t \in {"null", "undefined"}
    \/ value.t = "boolean" /\ ~value.v
    \/ value.t = "string" /\ value.s = <<>>
    \/ value.t = "number" /\ value.bits[1] % 128 = 0 /\ \A i \in 2..8 : value.bits[i] = 0
    \/ value.t = "number" /\ value.bits[1] % 128 = 127 /\ value.bits[2] >= 240
                          /\ (value.bits[2] % 16 # 0 \/ \E i \in 3..8 : value.bits[i] # 0)

encodeAMF0Command(commandName, transactionId, commandObject, additionalParams) ==
    encodeAMF0("elements",
               <<commandName, transactionId, IF Falsy(commandObject) THEN Null ELSE commandObject>>
               \o additionalParams)

-----------------------------------------------------------------------------
(* core/messages.ts: handleMessage *)

SET_CHUNK_SIZE == 1
AUDIO == 8

\* a handler of SET_CHUNK_SIZE that leaves the chunk size alone
keepChunkSize(message, chunkSize) == chunkSize

\* handleSetChunkSize: the value chunkSizeRef holds afterwards
handleSetChunkSize(message, chunkSize) ==
    IF BLen(message.payload) < 4 THEN chunkSize
    ELSE ShiftOr4(BAt(message.payload, 0), BAt(message.payload, 1),
                  BAt(message.payload, 2), BAt(message.payload, 3))

\* a dispatcher that hands every message to handleSetChunkSize
setChunkSizeFromAny(message, chunkSize) == handleSetChunkSize(message, chunkSize)

\* handleMessage: the value chunkSizeRef holds afterwards
handleMessage(message, chunkSize) ==
    IF message.header.type = SET_CHUNK_SIZE
    THEN handleSetChunkSize(message, chunkSize)
    ELSE chunkSize

ABORT == 2
ACKNOWLEDGEMENT == 3
USER_CONTROL == 4
WINDOW_ACKNOWLEDGEMENT_SIZE == 5
SET_PEER_BANDWIDTH == 6
PingRequest == 6
PingResponse == 7

\* the buffers sendControlMessage writes with its default chunk stream 2,
\* message stream 0 and chunk size 128
sendControlMessage(messageType, payload) ==
    sendMessage([type |-> messageType, payload |-> payload], 2, 0, 128)

\* the four payload bytes of a 32-bit value, most significant first
Int32Bytes(v) == Bytes(<<ByteOf(v, 24), ByteOf(v, 16), ByteOf(v, 8), ByteOf(v, 0)>>)

sendWindowAcknowledgementSize(windowSize) ==
    sendControlMessage(WINDOW_ACKNOWLEDGEMENT_SIZE, Int32Bytes(windowSize))

\* handleSetPeerBandwidth: the writes it starts; sendWindowAcknowledgementSize
\* is called without await and runs up to its conn.write within the call
handleSetPeerBandwidth(message) ==
    IF BLen(message.payload) < 5 THEN <<>>
    ELSE sendWindowAcknowledgementSize(
             ShiftOr4(BAt(message.payload, 0), BAt(message.payload, 1),
                      BAt(message.payload, 2), BAt(message.payload, 3)))

\* sendPingResponse: the buffers it writes once its await import has resolved
sendPingResponse(timestampData) ==
    sendControlMessage(USER_CONTROL, BCat(Bytes(<<0, PingResponse>>), timestampData))

\* handleUserControlMessage: the sends it leaves behind; sendPingResponse is
\* called without await and suspends at its await import before it writes
handleUserControlMessage(message) ==
    IF BLen(message.payload) < 2 THEN <<>>
    ELSE IF BAt(message.payload, 0) * 256 + BAt(message.payload, 1) = PingRequest
    THEN <<sendPingResponse(BDrop(message.payload, 2))>>
    ELSE <<>>

\* handleAbortMessage, handleAcknowledgement, handleWindowAcknowledgementSize:
\* the state they change; each only logs
handleAbortMessage(map, message) == map

\* the strings of the command handlers, as code points
\* "connect"
STR_connect == <<99, 111, 110, 110, 101, 99, 116>>
\* "_result"
STR__result == <<95, 114, 101, 115, 117, 108, 116>>
\* "fmsVer"
STR_fmsVer == <<102, 109, 115, 86, 101, 114>>
\* "FMS/3,0,1,123"
STR_FMS == <<70, 77, 83, 47, 51, 44, 48, 44, 49, 44, 49, 50, 51>>
\* "capabilities"
STR_capabilities == <<99, 97, 112, 97, 98, 105, 108, 105, 116, 105, 101, 115>>
\* "mode"
STR_mode == <<109, 111, 100, 101>>
\* "level"
STR_level == <<108, 101, 118, 101, 108>>
\* "status"
STR_status == <<115, 116, 97, 116, 117, 115>>
\* "code"
STR_code == <<99, 111, 100, 101>>
\* "NetConnection.Connect.Success"
STR_ConnectSuccess == <<78, 101, 116, 67, 111, 110, 110, 101, 99, 116, 105, 111, 110, 46, 67, 111, 110, 110, 101, 99, 116, 46, 83, 117, 99, 99, 101, 115, 115>>
\* "description"
STR_description == <<100, 101, 115, 99, 114, 105, 112, 116, 105, 111, 110>>
\* "Connection succeeded."
STR_ConnectionSucceeded == <<67, 111, 110, 110, 101, 99, 116, 105, 111, 110, 32, 115, 117, 99, 99, 101, 101, 100, 101, 100, 46>>
\* "objectEncoding"
STR_objectEncoding == <<111, 98, 106, 101, 99, 116, 69, 110, 99, 111, 100, 105, 110, 103>>
\* "app"
STR_app == <<97, 112, 112>>
\* "live"
STR_live == <<108, 105, 118, 101>>
\* "createStream"
STR_createStream == <<99, 114, 101, 97, 116, 101, 83, 116, 114, 101, 97, 109>>
\* "play"
STR_play == <<112, 108, 97, 121>>
\* "deleteStream"
STR_deleteStream == <<100, 101, 108, 101, 116, 101, 83, 116, 114, 101, 97, 109>>
\* "closeStream"
STR_closeStream == <<99, 108, 111, 115, 101, 83, 116, 114, 101, 97, 109>>
\* "releaseStream"
STR_releaseStream == <<114, 101, 108, 101, 97, 115, 101, 83, 116, 114, 101, 97, 109>>
\* "FCPublish"
STR_FCPublish == <<70, 67, 80, 117, 98, 108, 105, 115, 104>>
\* "publish"
STR_publish == <<112, 117, 98, 108, 105, 115, 104>>
\* "onStatus"
STR_onStatus == <<111, 110, 83, 116, 97, 116, 117, 115>>
\* "NetStream.Play.Start"
STR_PlayStart == <<78, 101, 116, 83, 116, 114, 101, 97, 109, 46, 80, 108, 97, 121, 46, 83, 116, 97, 114, 116>>
\* "NetStream.Publish.Start"
STR_PublishStart == <<78, 101, 116, 83, 116, 114, 101, 97, 109, 46, 80, 117, 98, 108, 105, 115, 104, 46, 83, 116, 97, 114, 116>>
\* "Started playing "
STR_StartedPlaying == <<83, 116, 97, 114, 116, 101, 100, 32, 112, 108, 97, 121, 105, 110, 103, 32>>
\* "Started publishing "
STR_StartedPublishing == <<83, 116, 97, 114, 116, 101, 100, 32, 112, 117, 98, 108, 105, 115, 104, 105, 110, 103, 32>>
\* "."
STR_Dot == <<46>>
\* "details"
STR_details == <<100, 101, 116, 97, 105, 108, 115>>
\* "undefined"
STR_undefined == <<117, 110, 100, 101, 102, 105, 110, 101, 100>>
\* "null"
STR_null == <<110, 117, 108, 108>>
\* "true"
STR_true == <<116, 114, 117, 101>>
\* "false"
STR_false == <<102, 97, 108, 115, 101>>
\* "[object Object]"
STR_objectObject == <<91, 111, 98, 106, 101, 99, 116, 32, 79, 98, 106, 101, 99, 116, 93>>

COMMAND_AMF0 == 20
COMMAND_AMF3 == 17

\* the numbers 0, 1 and 31 as doubles
Double0 == <<0, 0, 0, 0, 0, 0, 0, 0>>
Double1 == <<63, 240, 0, 0, 0, 0, 0, 0>>
Double31 == <<64, 63, 0, 0, 0, 0, 0, 0>>

sendSetPeerBandwidth(windowSize, limitType) ==
    sendControlMessage(SET_PEER_BANDWIDTH, BCat(Int32Bytes(windowSize), Bytes(<<limitType>>)))

sendStreamBegin(streamId) ==
    sendControlMessage(USER_CONTROL, BCat(Bytes(<<0, 0>>), Int32Bytes(streamId)))

\* sendCommandAMF0: chunk stream 3, message stream 1, chunk size 4096
sendCommandAMF0(commandName, transactionId, commandObject, additionalParams) ==
    sendMessage([type |-> COMMAND_AMF0,
                 payload |-> Bytes(encodeAMF0Command(commandName, transactionId,
                                                     commandObject, additionalParams))],
                3, 1, 4096)

\* value.objectEncoding for a value that is neither null nor undefined
objectEncodingOf(value) ==
    IF value.t = "object" /\ \E k \in DOMAIN value.props : value.props[k].key = STR_objectEncoding
    THEN value.props[CHOOSE k \in DOMAIN value.props :
                         value.props[k].key = STR_objectEncoding].value
    ELSE Undef

\* handleConnectCommand: its writes in order, and whether it throws;
\* commandObject.objectEncoding is a TypeError on null and undefined
handleConnectCommand(transactionId, commandObject) ==
    LET first == sendWindowAcknowledgementSize(2500000)
                 \o sendSetPeerBandwidth(2500000, 2)
                 \o sendStreamBegin(0)
        resultCommandObj ==
            Obj(<<[key |-> STR_fmsVer, value |-> Str(STR_FMS)],
                  [key |-> STR_capabilities, value |-> Num(Double31)],
                  [key |-> STR_mode, value |-> Num(Double1)]>>)
        infoObj ==
            Obj(<<[key |-> STR_level, value |-> Str(STR_status)],
                  [key |-> STR_code, value |-> Str(STR_ConnectSuccess)],
                  [key |-> STR_description, value |-> Str(STR_ConnectionSucceeded)],
                  [key |-> STR_objectEncoding,
                   value |-> IF Falsy(objectEncodingOf(commandObject)) THEN Num(Double0)
                             ELSE objectEncodingOf(commandObject)]>>)
    IN  IF commandObject.t \in {"null", "undefined"}
        THEN [writes |-> first, thrown |-> TRUE]
        ELSE [writes |-> first \o sendCommandAMF0(Str(STR__result), transactionId,
                                                  resultCommandObj, <<infoObj>>),
              thrown |-> FALSE]

\* a createStream handler that answers with transaction id 0
resultWithZero(transactionId) ==
    sendCommandAMF0(Str(STR__result), Num(Double0), Null, <<Num(Double1)>>)

\* handleCreateStreamCommand: its writes; streamId is the constant 1
handleCreateStreamCommand(transactionId) ==
    sendCommandAMF0(Str(STR__result), transactionId, Null, <<Num(Double1)>>)

\* `${value}` of a template literal, for strings, undefined, null, booleans
\* and plain objects (the string of a number, an array or a Date is not
\* modelled)
TemplateString(value) ==
    CASE value.t = "string" -> value.s
      [] value.t = "undefined" -> STR_undefined
      [] value.t = "null" -> STR_null
      [] value.t = "boolean" -> IF value.v THEN STR_true ELSE STR_false
      [] value.t = "object" -> STR_objectObject

\* the info object of an onStatus: description is `${started}${streamName}.`
statusInfo(code, started, streamName) ==
    Obj(<<[key |-> STR_level, value |-> Str(STR_status)],
          [key |-> STR_code, value |-> Str(code)],
          [key |-> STR_description,
           value |-> Str(started \o TemplateString(streamName) \o STR_Dot)],
          [key |-> STR_details, value |-> streamName]>>)

\* handlePlayCommand: its writes in order
handlePlayCommand(transactionId, commandObject, streamName) ==
    sendStreamBegin(1)
    \o sendCommandAMF0(Str(STR_onStatus), Num(Double0), Null,
                       <<statusInfo(STR_PlayStart, STR_StartedPlaying, streamName)>>)

\* handleDeleteStreamCommand and handleCloseStreamCommand only log
handleDeleteStreamCommand(transactionId, streamId) == <<>>

handleCloseStreamCommand == <<>>

handleReleaseStreamCommand(transactionId, streamName) ==
    sendCommandAMF0(Str(STR__result), transactionId, Null, <<Null>>)

handleFCPublishCommand(transactionId, streamName) ==
    sendCommandAMF0(Str(STR__result), transactionId, Null, <<Null>>)

\* a publish handler that writes its onStatus before its StreamBegin
publishStatusFirst(transactionId, streamName, publishType) ==
    sendCommandAMF0(Str(STR_onStatus), Num(Double0), Null,
                    <<statusInfo(STR_PublishStart, STR_StartedPublishing, streamName)>>)
    \o sendStreamBegin(1)

\* handlePublishCommand: its writes in order
handlePublishCommand(transactionId, streamName, publishType) ==
    sendStreamBegin(1)
    \o sendCommandAMF0(Str(STR_onStatus), Num(Double0), Null,
                       <<statusInfo(STR_PublishStart, STR_StartedPublishing, streamName)>>)

\* additionalParams[i] for i = 0, 1
Param(additionalParams, i) ==
    IF i < Len(additionalParams) THEN additionalParams[i + 1] ELSE Undef

\* the writes of the handlers that do not throw
returns(writes) == [writes |-> writes, thrown |-> FALSE, loops |-> FALSE]

\* handleCommandMessage: its writes, and whether it throws or never returns
commandSwitch(c) ==
    IF c.status = "RangeError" THEN [writes |-> <<>>, thrown |-> TRUE, loops |-> FALSE]
    ELSE IF c.status = "loop" THEN [writes |-> <<>>, thrown |-> FALSE, loops |-> TRUE]
    ELSE IF c.commandName = Str(STR_connect)
    THEN handleConnectCommand(c.transactionId, c.commandObject) @@ [loops |-> FALSE]
    ELSE IF c.commandName = Str(STR_createStream)
    THEN returns(handleCreateStreamCommand(c.transactionId))
    ELSE IF c.commandName = Str(STR_play)
    THEN returns(handlePlayCommand(c.transactionId, c.commandObject,
                                   Param(c.additionalParams, 0)))
    ELSE IF c.commandName = Str(STR_deleteStream)
    THEN returns(handleDeleteStreamCommand(c.transactionId, Param(c.additionalParams, 0)))
    ELSE IF c.commandName = Str(STR_closeStream)
    THEN returns(handleCloseStreamCommand)
    ELSE IF c.commandName = Str(STR_releaseStream)
    THEN returns(handleReleaseStreamCommand(c.transactionId, Param(c.additionalParams, 0)))
    ELSE IF c.commandName = Str(STR_FCPublish)
    THEN returns(handleFCPublishCommand(c.transactionId, Param(c.additionalParams, 0)))
    ELSE IF c.commandName = Str(STR_publish)
    THEN returns(handlePublishCommand(c.transactionId, Param(c.additionalParams, 0),
                                      Param(c.additionalParams, 1)))
    ELSE returns(<<>>)

handleCommandMessage(message) == commandSwitch(parseAMF0Command(ByteSeq(message.payload)))

IsCommand(message) == message.header.type \in {COMMAND_AMF0, COMMAND_AMF3}

\* what handleMessage does besides setting the chunk size: the writes it has
\* made when its promise settles, whether it rejects (thrown), whether it
\* never settles (loops)
effectsOf(message) ==
    IF IsCommand(message) THEN handleCommandMessage(message)
    ELSE [writes |-> IF message.header.type = SET_PEER_BANDWIDTH
                     THEN handleSetPeerBandwidth(message) ELSE <<>>,
          thrown |-> FALSE, loops |-> FALSE]

VIDEO == 9
DATA_AMF0 == 18
DATA_AMF3 == 15

\* handleDataMessage, handleAudioMessage and handleVideoMessage: the messages
\* they hand on to a consumer; each of them writes a line to the console and
\* returns
forwardedOf(message) ==
    CASE message.header.type \in {DATA_AMF0, DATA_AMF3} -> <<>>
      [] message.header.type = AUDIO -> <<>>
      [] message.header.type = VIDEO -> <<>>
      [] OTHER -> <<>>

\* the sends handleMessage leaves to tasks nobody awaits
detachedOf(message) ==
    IF message.header.type = USER_CONTROL THEN handleUserControlMessage(message)
    ELSE <<>>

-----------------------------------------------------------------------------
(* core/relay.ts: the control server *)

MaxRequests == 3

\* the requests drawn: their method and the pathname of their URL
Requests ==
    {[method |-> "GET", pathname |-> "/start"], [method |-> "GET", pathname |-> "/"],
     [method |-> "POST", pathname |-> "/1"], [method |-> "POST", pathname |-> "/2"]}

NoItem == [server |-> "", key |-> ""]

\* the server and the key of the form a POST carries
FormItem == [server |-> "rtmp://a", key |-> "k"]

\* the module after its top-level code: ffmpeg_process undefined, both items
\* empty, no call of the handler; entered and spawned count the calls of
\* run_ffmpeg and of spawn()
NoRelay ==
    [ffmpeg_process |-> "undefined", item1 |-> NoItem, item2 |-> NoItem,
     calls |-> <<>>, entered |-> 0, spawned |-> 0]

\* the variables of the RTMP server and of the codec
rtmp == <<listener, conn, pc, hs, written, sockbuf, inflight, peer, chunkSizeRef,
          chunk_header, chunk, messageStreams, yielded, out, lastRead, pending, amf>>

\* a request arrives and Deno.serve calls the handler with it
Request ==
    /\ Len(relay.calls) < MaxRequests
    /\ \E req \in Requests :
           relay' = [relay EXCEPT !.calls = Append(@, [req |-> req, pc |-> "called"])]
    /\ UNCHANGED rtmp

\* run_ffmpeg(data) from its call to its first suspension: it returns an Error
\* for an empty list and awaits Deno.writeFile otherwise
run_ffmpeg(data) == IF Len(data) = 0 THEN "Error" ELSE "writeFile"

\* the handler from its call to its first await, or to its response when it
\* meets none
HandlerOf(i) ==
    LET req == relay.calls[i].req
    IN  /\ relay.calls[i].pc = "called"
        /\ relay' =
              IF req.method = "POST"
              THEN [relay EXCEPT !.calls[i].pc = "formData"]
              ELSE IF /\ req.method = "GET"
                      /\ req.pathname = "/start"
                      /\ relay.ffmpeg_process = "undefined"
              THEN [relay EXCEPT !.entered = @ + 1,
                                 !.calls[i].pc = run_ffmpeg(<<relay.item1, relay.item2>>)]
              ELSE [relay EXCEPT !.calls[i].pc = "responded"]
        /\ UNCHANGED rtmp

Handler == \E i \in DOMAIN relay.calls : HandlerOf(i)

\* await req.formData() is over: the handler sets the item and responds
FormDataOf(i) ==
    /\ relay.calls[i].pc = "formData"
    /\ relay' =
          IF relay.calls[i].req.pathname = "/1"
          THEN [relay EXCEPT !.item1 = FormItem, !.calls[i].pc = "responded"]
          ELSE IF relay.calls[i].req.pathname = "/2"
          THEN [relay EXCEPT !.item2 = FormItem, !.calls[i].pc = "responded"]
          ELSE [relay EXCEPT !.calls[i].pc = "responded"]
    /\ UNCHANGED rtmp

FormData == \E i \in DOMAIN relay.calls : FormDataOf(i)

\* await Deno.writeFile is over. When the file was written run_ffmpeg spawns
\* the child and returns it, and the handler stores it in ffmpeg_process and
\* responds; when the write failed run_ffmpeg and the handler reject.
WriteFileOf(i, ok) ==
    /\ relay.calls[i].pc = "writeFile"
    /\ relay' =
          IF ok
          THEN [relay EXCEPT !.spawned = @ + 1, !.ffmpeg_process = "ChildProcess",
                             !.calls[i].pc = "responded"]
          ELSE [relay EXCEPT !.calls[i].pc = "rejected"]
    /\ UNCHANGED rtmp

WriteFile == \E i \in DOMAIN relay.calls, ok \in BOOLEAN : WriteFileOf(i, ok)

-----------------------------------------------------------------------------
(* The transport and the peer *)

MaxChunks == 3
MaxConns == 2

PeerCsids == {3, 4}
PeerLengths == {1, 129}
PeerSplits == {0, 13}
PeerChunkSizes == {2}
PeerStreamId == 1

\* one conn.write of the peer, cut into the TCP segments it travels in
Segments(bytes, cut) ==
    IF cut <= 0 \/ cut >= BLen(bytes) THEN <<bytes>>
    ELSE <<BTake(bytes, cut), BDrop(bytes, cut)>>

\* the locals of one iteration of the accept loop before anything was read
NoHandshake ==
    [c0 |-> <<>>, s1_time |-> <<>>, s1_random |-> <<>>, c1_time |-> <<>>, c1_zero |-> <<>>,
     c1_randome |-> <<>>, c2 |-> <<>>]

s1_zero == Run(0, ZeroLen)

\* a client that has connected and sent nothing yet
NewPeer ==
    [stage |-> "c0", closed |-> FALSE, c1 |-> <<>>, c2 |-> <<>>,
     sent |-> 0, chunkSize |-> InitialChunkSize, ctx |-> <<>>, nmsg |-> 0]

PeerActive == listener = "listening" /\ pc \notin {"accept", "exit"} /\ ~peer.closed

\* a segment arrives
Deliver ==
    /\ inflight # <<>>
    /\ pc \notin {"accept", "exit"}
    /\ sockbuf' = BCat(sockbuf, Head(inflight))
    /\ inflight' = Tail(inflight)
    /\ UNCHANGED <<listener, conn, pc, hs, written, pending, amf, relay, peer, chunkSizeRef, chunk_header,
                   chunk, messageStreams, yielded, out, lastRead>>

\* the chunk size a peer means by the payload of its SET_CHUNK_SIZE: 31 bits
PeerChunkSize(payload) ==
    (BAt(payload, 0) % 128) * 16777216 + BAt(payload, 1) * 65536
    + BAt(payload, 2) * 256 + BAt(payload, 3)

\* the peer starts a message of length len on chunk stream csid with a chunk of
\* format fmt; a compressed header only after a complete message it agrees with
PeerStartMessage(csid, fmt, type, len, payload, cut) ==
    /\ PeerActive
    /\ peer.stage = "chunks"
    /\ peer.sent < MaxChunks
    /\ fmt # 0 => /\ Has(peer.ctx, csid)
                  /\ peer.ctx[csid].rem = <<>>
                  /\ fmt \in {2, 3} => /\ peer.ctx[csid].len = len
                                       /\ peer.ctx[csid].type = type
    /\ LET data == BTake(payload, peer.chunkSize)
           bytes == sendChunk([fmt |-> fmt, chunkStreamId |-> csid, timestamp |-> 0,
                               messageLength |-> len, messageTypeId |-> type,
                               messageStreamId |-> PeerStreamId, data |-> data])
       IN  /\ inflight' = inflight \o Segments(bytes, cut)
           /\ peer' = [peer EXCEPT
                  !.sent = @ + 1,
                  !.nmsg = @ + 1,
                  !.ctx = Put(@, csid, [len |-> len, type |-> type,
                                        rem |-> BDrop(payload, peer.chunkSize)]),
                  !.chunkSize = IF type = SET_CHUNK_SIZE /\ BLen(payload) <= peer.chunkSize
                                THEN PeerChunkSize(payload) ELSE @]
    /\ UNCHANGED <<listener, conn, pc, hs, written, pending, amf, relay, sockbuf, chunkSizeRef, chunk_header,
                   chunk, messageStreams, yielded, out, lastRead>>

PeerSendAudio ==
    \E csid \in PeerCsids, fmt \in 0..3, len \in PeerLengths, cut \in PeerSplits :
        PeerStartMessage(csid, fmt, AUDIO, len, Run(16 + peer.nmsg, len), cut)

\* the peer continues the message it has under way on csid with a Type 3 chunk
PeerContinueOn(csid, cut) ==
        /\ PeerActive
        /\ peer.stage = "chunks"
        /\ peer.sent < MaxChunks
        /\ Has(peer.ctx, csid)
        /\ peer.ctx[csid].rem # <<>>
        /\ LET data == BTake(peer.ctx[csid].rem, peer.chunkSize)
               bytes == sendChunk([fmt |-> 3, chunkStreamId |-> csid, timestamp |-> Undefined,
                                   messageLength |-> Undefined, messageTypeId |-> Undefined,
                                   messageStreamId |-> Undefined, data |-> data])
           IN  /\ inflight' = inflight \o Segments(bytes, cut)
               /\ peer' = [peer EXCEPT !.sent = @ + 1,
                                       !.ctx[csid].rem = BDrop(@, peer.chunkSize)]
        /\ UNCHANGED <<listener, conn, pc, hs, written, pending, amf, relay, sockbuf, chunkSizeRef, chunk_header,
                       chunk, messageStreams, yielded, out, lastRead>>

PeerContinue == \E csid \in PeerCsids, cut \in PeerSplits : PeerContinueOn(csid, cut)

\* the peer closes its end
PeerClose ==
    /\ PeerActive
    /\ peer' = [peer EXCEPT !.closed = TRUE]
    /\ UNCHANGED <<listener, conn, pc, hs, written, pending, amf, relay, sockbuf, inflight, chunkSizeRef,
                   chunk_header, chunk, messageStreams, yielded, out, lastRead>>

-----------------------------------------------------------------------------
(* core/rtmp.ts: chunkStream / readChunk, suspended at each await of read *)

\* messagesFromChunks ran to its next suspension and left `step`
Suspend(step) ==
    /\ messageStreams' = step.map
    /\ yielded' = step.yield
    /\ out' = IF step.yield = NoMessage THEN out ELSE Append(out, step.yield)
    /\ pc' = IF step.yield = NoMessage THEN "readBasicHeader" ELSE "handleMessage"

\* readChunkHeader: readBasicHeader's read(conn, 1); a Type 3 header has no more
ReadBasicHeader ==
    /\ pc = "readBasicHeader"
    /\ ReadReady(1)
    /\ LET r == read(1)
       IN  /\ lastRead' = [size |-> 1, n |-> r.n]
           /\ sockbuf' = BDrop(sockbuf, r.n)
           /\ IF r.n = -1
              THEN /\ listener' = "crashed"
                   /\ pc' = "exit"
                   /\ chunk_header' = chunk_header
              ELSE LET basic == readBasicHeader(BAt(r.buf, 0))
                   IN  /\ listener' = listener
                       /\ IF basic.fmt = 3
                          THEN /\ chunk_header' =
                                      [chunk_stream_id |-> basic.chunk_stream_id,
                                       extended_timestamp |-> Undefined,
                                       message_header |-> readMessageHeader(3, <<>>)]
                               /\ pc' = "readChunkData"
                          ELSE /\ chunk_header' = [chunk_stream_id |-> basic.chunk_stream_id,
                                                   fmt |-> basic.fmt]
                               /\ pc' = "readMessageHeader"
    /\ UNCHANGED <<conn, hs, written, pending, amf, relay, inflight, peer, chunkSizeRef, chunk, messageStreams,
                   yielded, out>>

\* readChunkHeader: readMessageHeader's read(conn, 11 | 7), then the extended
\* timestamp check
ReadMessageHeader ==
    /\ pc = "readMessageHeader"
    /\ ReadReady(MessageHeaderSize(chunk_header.fmt))
    /\ LET r == read(MessageHeaderSize(chunk_header.fmt))
           thrown == \/ r.n = -1
                     \/ messageHeaderThrows(chunk_header.fmt, r.buf)
                     \/ NeedsExtendedTimestamp(readMessageHeader(chunk_header.fmt, r.buf))
       IN  /\ lastRead' = [size |-> MessageHeaderSize(chunk_header.fmt), n |-> r.n]
           /\ sockbuf' = BDrop(sockbuf, r.n)
           /\ IF thrown
              THEN /\ listener' = "crashed"
                   /\ pc' = "exit"
                   /\ chunk_header' = chunk_header
              ELSE /\ listener' = listener
                   /\ pc' = "readChunkData"
                   /\ chunk_header' =
                          [chunk_stream_id |-> chunk_header.chunk_stream_id,
                           extended_timestamp |-> Undefined,
                           message_header |-> readMessageHeader(chunk_header.fmt, r.buf)]
    /\ UNCHANGED <<conn, hs, written, pending, amf, relay, inflight, peer, chunkSizeRef, chunk, messageStreams,
                   yielded, out>>

\* readChunk: read(conn, sizeToRead); the chunk goes to messagesFromChunks,
\* which runs until it yields a message or asks for the next chunk
ReadChunkData ==
    /\ pc = "readChunkData"
    /\ ReadReady(sizeToRead(chunk_header, chunkSizeRef))
    /\ LET size == sizeToRead(chunk_header, chunkSizeRef)
           r == read(size)
           c == [header |-> chunk_header, data |-> r.buf, seq |-> chunk.seq + 1]
       IN  IF size < 0
           THEN /\ listener' = "crashed"
                /\ pc' = "exit"
                /\ UNCHANGED <<sockbuf, lastRead, chunk, messageStreams, yielded, out>>
           ELSE /\ lastRead' = [size |-> size, n |-> r.n]
                /\ sockbuf' = BDrop(sockbuf, r.n)
                /\ listener' = listener
                /\ IF r.n = -1
                   THEN /\ pc' = "accept"
                        /\ out' = out \o onEnd(messageStreams)
                        /\ UNCHANGED <<chunk, messageStreams, yielded>>
                   ELSE /\ chunk' = c
                        /\ Suspend(onChunk(messageStreams, c))
    /\ UNCHANGED <<conn, hs, written, pending, amf, relay, inflight, peer, chunkSizeRef, chunk_header>>

\* the accept loop's await handleMessage(conn, message, chunkSizeRef), then
\* messagesFromChunks resumed until its next suspension
\* handleMessage settles with `effects`. A rejected handleMessage is an
\* uncaught exception of the accept loop; one that never settles leaves the
\* only server task inside it for good.
Settle(effects) ==
    /\ written' = written \o effects.writes
    /\ IF effects.thrown
       THEN /\ listener' = "crashed"
            /\ pc' = "exit"
            /\ UNCHANGED <<messageStreams, yielded, out>>
       ELSE IF effects.loops
       THEN /\ pc' = "loop"
            /\ UNCHANGED <<listener, messageStreams, yielded, out>>
       ELSE /\ Suspend(afterYield(handleAbortMessage(messageStreams, yielded.message),
                                  chunk, yielded))
            /\ UNCHANGED listener

HandleMessage ==
    /\ pc = "handleMessage"
    /\ chunkSizeRef' = handleMessage(yielded.message, chunkSizeRef)
    /\ pending' = pending \o [k \in DOMAIN detachedOf(yielded.message) |->
                                 [conn |-> conn, todo |-> detachedOf(yielded.message)[k]]]
    /\ Settle(effectsOf(yielded.message))
    /\ UNCHANGED <<conn, hs, sockbuf, inflight, peer, chunk_header, chunk, lastRead, amf, relay>>

\* a send left behind by handleMessage resumes and makes its next conn.write;
\* an uncaught throw has ended the process and its tasks
DetachedWrite ==
    /\ pending # <<>>
    /\ listener # "crashed"
    /\ written' = IF pending[1].conn = conn THEN Append(written, pending[1].todo[1])
                  ELSE written
    /\ pending' = IF Len(pending[1].todo) = 1 THEN Tail(pending)
                  ELSE <<[pending[1] EXCEPT !.todo = Tail(@)]>> \o Tail(pending)
    /\ UNCHANGED <<listener, conn, pc, hs, sockbuf, inflight, peer, chunkSizeRef, chunk_header,
                   chunk, messageStreams, yielded, out, lastRead, amf, relay>>

ChunkLayer == ReadBasicHeader \/ ReadMessageHeader \/ ReadChunkData \/ HandleMessage

-----------------------------------------------------------------------------
(* core/rtmp.ts: the accept loop and the handshake, suspended at each read *)

\* the bytes crypto.getRandomValues is let to fill s1_time with; s1_random is
\* filled with the complement, so that no S1 block is constant
S1Fills == {1, 2}
\* the peer's C1: the time field is four bytes 1, the zero field four bytes
\* drawn from C1ZeroFills, the random field bytes 5 and a last byte drawn from
\* C1LastBytes
C1ZeroFills == {0, 1}
C1LastBytes == {1, 5}
PeerVersions == {3, 6}
\* where the peer's C1 is cut into two segments (0: not cut)
HandshakeCuts == {0, 1535}
\* what the peer sends as C2: S1 as received, S1 with the first byte of one
\* field changed, or S1 from its second byte on followed by one more byte
C2Modes == {"echo", "time", "zero", "random", "shifted"}
\* the chunks a peer sends after its handshake when the handshake is modelled too
MaxShort == 2

\* the three conn.write calls that send S2
s2WritesEchoingZero(h) == <<h.c1_time, h.c1_zero, h.c1_randome>>

s2Writes(h) == <<h.c1_time, h.c1_time, h.c1_randome>>

\* the three assertEquals on c2
c2Verified(c2, time, zero, random) ==
    /\ BSlice(c2, 0, 4) = time
    /\ BSlice(c2, 4, 8) = zero
    /\ BSlice(c2, 8, 1536) = random

RECURSIVE Concat(_)
Concat(buffers) == IF buffers = <<>> THEN <<>> ELSE BCat(buffers[1], Concat(Tail(buffers)))

\* conn.close(); break
CloseAndBreak ==
    /\ listener' = "stopped"
    /\ pc' = "exit"

\* for await (const conn of listener)
Accept ==
    /\ pc = "accept"
    /\ listener = "listening"
    /\ conn < MaxConns
    /\ conn' = conn + 1
    /\ pc' = "readC0"
    /\ hs' = NoHandshake
    /\ written' = <<>>
    /\ sockbuf' = <<>>
    /\ inflight' = <<>>
    /\ peer' = NewPeer
    /\ chunk_header' = NoHeader
    /\ chunk' = NoChunk
    /\ messageStreams' = <<>>
    /\ yielded' = NoMessage
    /\ out' = <<>>
    /\ lastRead' = NoRead
    /\ UNCHANGED <<listener, chunkSizeRef, pending, amf, relay>>

\* read c0; send s0, s1
ReadC0 ==
    /\ pc = "readC0"
    /\ ReadReady(C0Len)
    /\ LET r == read(C0Len)
       IN  /\ lastRead' = [size |-> C0Len, n |-> r.n]
           /\ sockbuf' = BDrop(sockbuf, r.n)
           /\ IF r.n = -1 \/ BAt(r.buf, 0) # RtmpVersion
              THEN /\ CloseAndBreak
                   /\ hs' = [hs EXCEPT !.c0 = r.buf]
                   /\ written' = written
              ELSE \E a \in S1Fills :
                      /\ hs' = [hs EXCEPT !.c0 = r.buf,
                                          !.s1_time = Run(a, TimeLen),
                                          !.s1_random = Run(255 - a, RandomLen)]
                      /\ written' = written \o <<Bytes(<<RtmpVersion>>), Run(a, TimeLen),
                                                  s1_zero, Run(255 - a, RandomLen)>>
                      /\ pc' = "readC1Time"
                      /\ listener' = listener
    /\ UNCHANGED <<conn, pending, amf, relay, inflight, peer, chunkSizeRef, chunk_header, chunk, messageStreams,
                   yielded, out>>

\* read c1: c1_time
ReadC1Time ==
    /\ pc = "readC1Time"
    /\ ReadReady(TimeLen)
    /\ LET r == read(TimeLen)
       IN  /\ lastRead' = [size |-> TimeLen, n |-> r.n]
           /\ sockbuf' = BDrop(sockbuf, r.n)
           /\ IF r.n = -1
              THEN CloseAndBreak /\ hs' = hs
              ELSE /\ hs' = [hs EXCEPT !.c1_time = r.buf]
                   /\ pc' = "readC1Zero"
                   /\ listener' = listener
    /\ UNCHANGED <<conn, written, pending, amf, relay, inflight, peer, chunkSizeRef, chunk_header, chunk,
                   messageStreams, yielded, out>>

\* read c1: c1_zero (a value other than zero is only warned about)
ReadC1Zero ==
    /\ pc = "readC1Zero"
    /\ ReadReady(ZeroLen)
    /\ LET r == read(ZeroLen)
       IN  /\ lastRead' = [size |-> ZeroLen, n |-> r.n]
           /\ sockbuf' = BDrop(sockbuf, r.n)
           /\ IF r.n = -1
              THEN CloseAndBreak /\ hs' = hs
              ELSE /\ hs' = [hs EXCEPT !.c1_zero = r.buf]
                   /\ pc' = "readC1Random"
                   /\ listener' = listener
    /\ UNCHANGED <<conn, written, pending, amf, relay, inflight, peer, chunkSizeRef, chunk_header, chunk,
                   messageStreams, yielded, out>>

\* read c1: c1_randome; send s2
ReadC1Random ==
    /\ pc = "readC1Random"
    /\ ReadReady(RandomLen)
    /\ LET r == read(RandomLen)
       IN  /\ lastRead' = [size |-> RandomLen, n |-> r.n]
           /\ sockbuf' = BDrop(sockbuf, r.n)
           /\ IF r.n = -1
              THEN CloseAndBreak /\ UNCHANGED <<hs, written>>
              ELSE /\ hs' = [hs EXCEPT !.c1_randome = r.buf]
                   /\ written' = written \o s2Writes([hs EXCEPT !.c1_randome = r.buf])
                   /\ pc' = "readC2"
                   /\ listener' = listener
    /\ UNCHANGED <<conn, pending, amf, relay, inflight, peer, chunkSizeRef, chunk_header, chunk, messageStreams,
                   yielded, out>>

\* read c2; the three assertEquals; then the message loop starts
ReadC2 ==
    /\ pc = "readC2"
    /\ ReadReady(BlockLen)
    /\ LET r == read(BlockLen)
       IN  /\ lastRead' = [size |-> BlockLen, n |-> r.n]
           /\ sockbuf' = BDrop(sockbuf, r.n)
           /\ IF r.n = -1
              THEN CloseAndBreak /\ hs' = hs
              ELSE /\ hs' = [hs EXCEPT !.c2 = r.buf]
                   /\ IF c2Verified(r.buf, hs.s1_time, s1_zero, hs.s1_random)
                      THEN pc' = "readBasicHeader" /\ listener' = listener
                      ELSE pc' = "exit" /\ listener' = "crashed"
    /\ UNCHANGED <<conn, written, pending, amf, relay, inflight, peer, chunkSizeRef, chunk_header, chunk,
                   messageStreams, yielded, out>>

Handshake == ReadC0 \/ ReadC1Time \/ ReadC1Zero \/ ReadC1Random \/ ReadC2

\* the handshake state the connection being served is in
HandshakeState ==
    CASE pc = "readC0" -> "Uninitialized"
      [] pc \in {"readC1Time", "readC1Zero", "readC1Random"} -> "VersionSent"
      [] pc = "readC2" -> "AckSent"
      [] pc \in {"readBasicHeader", "readMessageHeader", "readChunkData", "handleMessage"}
           -> "Done"
      [] OTHER -> "None"

-----------------------------------------------------------------------------
(* The peer's side of the handshake *)

PeerSendC0 ==
    \E version \in PeerVersions :
        /\ PeerActive
        /\ peer.stage = "c0"
        /\ inflight' = Append(inflight, Bytes(<<version>>))
        /\ peer' = [peer EXCEPT !.stage = "c1"]
        /\ UNCHANGED <<listener, conn, pc, hs, written, pending, amf, relay, sockbuf, chunkSizeRef, chunk_header,
                       chunk, messageStreams, yielded, out, lastRead>>

PeerSendC1 ==
    \E z \in C1ZeroFills, e \in C1LastBytes, cut \in HandshakeCuts :
        LET c1 == Concat(<<Run(1, TimeLen), Run(z, ZeroLen),
                           Run(5, RandomLen - 1), Run(e, 1)>>)
        IN  /\ PeerActive
            /\ peer.stage = "c1"
            /\ inflight' = inflight \o Segments(c1, cut)
            /\ peer' = [peer EXCEPT !.stage = "c2", !.c1 = c1]
            /\ UNCHANGED <<listener, conn, pc, hs, written, pending, amf, relay, sockbuf, chunkSizeRef,
                           chunk_header, chunk, messageStreams, yielded, out, lastRead>>

\* the S0 and S1 the server wrote
S1Written == Concat(SubSeq(written, 2, 4))

Flipped(block, i) == BSet(block, i, (BAt(block, i) + 1) % 256)

\* the peer answers the S1 it received with its C2
PeerSendC2 ==
    \E mode \in C2Modes :
        LET c2 == CASE mode = "echo" -> S1Written
                    [] mode = "time" -> Flipped(S1Written, 0)
                    [] mode = "zero" -> Flipped(S1Written, TimeLen)
                    [] mode = "random" -> Flipped(S1Written, TimeLen + ZeroLen)
                    [] mode = "shifted" -> BCat(BDrop(S1Written, 1), Run(0, 1))
        IN  /\ PeerActive
            /\ peer.stage = "c2"
            /\ Len(written) >= 4
            /\ inflight' = Append(inflight, c2)
            /\ peer' = [peer EXCEPT !.stage = "chunks", !.c2 = c2]
            /\ UNCHANGED <<listener, conn, pc, hs, written, pending, amf, relay, sockbuf, chunkSizeRef,
                           chunk_header, chunk, messageStreams, yielded, out, lastRead>>

\* the peer announces a new chunk size: SET_CHUNK_SIZE on chunk stream 2
PeerSendSetChunkSize ==
    \E size \in PeerChunkSizes :
        peer.sent < MaxShort /\
        PeerStartMessage(2, 0, SET_CHUNK_SIZE, 4,
                         Bytes(<<ByteOf(size, 24), ByteOf(size, 16), ByteOf(size, 8),
                                 ByteOf(size, 0)>>), 0)

\* the peer sends whole one-byte messages on chunk stream 3
PeerSendShort ==
    \E fmt \in 0..3 : peer.sent < MaxShort /\ PeerStartMessage(3, fmt, AUDIO, 1, Run(16 + peer.nmsg, 1), 0)

\* a peer that has set its chunk size writes the header of a one-byte message
\* and not yet its payload
PeerSendHeader ==
    /\ peer.sent < MaxShort
    /\ peer.chunkSize # InitialChunkSize
    /\ PeerStartMessage(3, 0, AUDIO, 1, <<>>, 0)

-----------------------------------------------------------------------------
(* The whole server: connections accepted one after the other *)

Init ==
    /\ listener = "listening"
    /\ conn = 0
    /\ pc = "accept"
    /\ hs = NoHandshake
    /\ written = <<>>
    /\ sockbuf = <<>>
    /\ inflight = <<>>
    /\ peer = [NewPeer EXCEPT !.closed = TRUE]
    /\ chunkSizeRef = InitialChunkSize
    /\ chunk_header = NoHeader
    /\ chunk = NoChunk
    /\ messageStreams = <<>>
    /\ yielded = NoMessage
    /\ out = <<>>
    /\ lastRead = NoRead
    /\ pending = <<>>
    /\ amf = NoCall
    /\ relay = NoRelay

Next ==
    \/ Accept \/ Handshake \/ ChunkLayer
    \/ PeerSendC0 \/ PeerSendC1 \/ PeerSendC2
    \/ PeerSendSetChunkSize \/ PeerSendShort \/ PeerSendHeader \/ PeerClose \/ Deliver

Spec == Init /\ [][Next]_vars

-----------------------------------------------------------------------------
(* The chunk layer of one connection whose handshake is done *)

\* the first connection after a handshake in which every block was zero and
\* arrived whole; the peer and the chunk size are left to the specification
\* what the handshake of a connection has written when it is over
AfterHandshakeWrites ==
    <<Bytes(<<RtmpVersion>>), Run(0, TimeLen), Run(0, ZeroLen),
      Run(0, RandomLen), Run(0, TimeLen), Run(0, TimeLen), Run(0, RandomLen)>>

AfterHandshake ==
    /\ listener = "listening"
    /\ conn = 1
    /\ pc = "readBasicHeader"
    /\ hs = [c0 |-> Bytes(<<RtmpVersion>>), s1_time |-> Run(0, TimeLen),
             s1_random |-> Run(0, RandomLen), c1_time |-> Run(0, TimeLen),
             c1_zero |-> Run(0, ZeroLen), c1_randome |-> Run(0, RandomLen),
             c2 |-> Run(0, BlockLen)]
    /\ written = AfterHandshakeWrites
    /\ sockbuf = <<>>
    /\ inflight = <<>>
    /\ chunk_header = NoHeader
    /\ chunk = NoChunk
    /\ messageStreams = <<>>
    /\ yielded = NoMessage
    /\ out = <<>>
    /\ lastRead = [size |-> BlockLen, n |-> BlockLen]
    /\ pending = <<>>
    /\ amf = NoCall
    /\ relay = NoRelay

InitChunk ==
    /\ AfterHandshake
    /\ peer = [NewPeer EXCEPT !.stage = "chunks", !.c1 = Run(0, BlockLen),
                              !.c2 = Run(0, BlockLen)]
    /\ chunkSizeRef = InitialChunkSize

NextChunk == PeerSendAudio \/ PeerContinue \/ PeerClose \/ Deliver \/ ChunkLayer

SpecChunk == InitChunk /\ [][NextChunk]_vars

-----------------------------------------------------------------------------
(* One message written by core/chunk.ts sendMessage and read back *)

RTCsids == {3, 4}
RTLengths == {0, 1, 3, 4, 5, 129, 300}
RTChunkSizes == {2, 128}
RTStreamIds == {0, 1}
RTCuts == {0, 5}
\* the messages drawn are those sendMessage writes in at most this many chunks
MaxRTChunks == 3

\* a payload of len bytes: 16s, and 18 as the last of two or more
RTPayload(len) == IF len <= 1 THEN Run(16, len) ELSE BCat(Run(16, len - 1), Run(18, 1))

\* the next conn.write of sendMessage
PeerWrite ==
    \E cut \in RTCuts :
        /\ PeerActive
        /\ peer.todo # <<>>
        /\ inflight' = inflight \o Segments(Head(peer.todo), cut)
        /\ peer' = [peer EXCEPT !.todo = Tail(@), !.sent = @ + 1,
                                !.wrote = Append(@, Head(peer.todo))]
        /\ UNCHANGED <<listener, conn, pc, hs, written, pending, amf, relay, sockbuf, chunkSizeRef, chunk_header,
                       chunk, messageStreams, yielded, out, lastRead>>

NextRT == PeerWrite \/ PeerClose \/ Deliver \/ ChunkLayer

\* a connection after its handshake whose peer is sendMessage(conn, message,
\* chunkStreamId, messageStreamId, chunkSize) and whose reader has that chunk size
InitRT ==
    /\ AfterHandshake
    /\ \E chunkStreamId \in RTCsids, len \in RTLengths, chunkSize \in RTChunkSizes,
          messageStreamId \in RTStreamIds :
           /\ len <= MaxRTChunks * chunkSize
           /\ LET message == [type |-> AUDIO, payload |-> RTPayload(len)]
              IN
               /\ peer = [message |-> message, chunkStreamId |-> chunkStreamId,
                          messageStreamId |-> messageStreamId, wrote |-> <<>>,
                          todo |-> sendMessage(message, chunkStreamId, messageStreamId,
                                               chunkSize)]
                         @@ [NewPeer EXCEPT !.stage = "chunks", !.chunkSize = chunkSize]
               /\ chunkSizeRef = chunkSize
               /\ Len(peer.todo) <= MaxRTChunks

SpecRT == InitRT /\ [][NextRT]_vars

-----------------------------------------------------------------------------
(* The same messages read twice: sent with Type 0 headers only, then with the
   later ones started by compressed headers *)

EqLengths == {1, 2}

\* the ways to send three messages on chunk stream 3: the format each starts with
\* and its length; a Type 2 or 3 start keeps the length of the message before
EqPlans ==
    {plan \in [1..MaxChunks -> [fmt : 0..3, len : EqLengths]] :
        /\ plan[1].fmt = 0
        /\ \A k \in 2..MaxChunks : plan[k].fmt \in {2, 3} => plan[k].len = plan[k - 1].len}

Messages(emitted) == [k \in DOMAIN emitted |-> emitted[k].message]

AllRead == inflight = <<>> /\ sockbuf = <<>> /\ pc \in {"readBasicHeader", "exit", "accept"}

PeerSendPlanned ==
    /\ peer.nmsg < Len(peer.plan)
    /\ LET planned == peer.plan[peer.nmsg + 1]
       IN  PeerStartMessage(3, IF peer.phase = "plain" THEN 0 ELSE planned.fmt, AUDIO,
                            planned.len, Run(16 + peer.nmsg, planned.len), 0)

\* the messages of the first reading are kept and a fresh reader is given the
\* second encoding
Restart ==
    /\ peer.phase = "plain"
    /\ peer.nmsg = Len(peer.plan)
    /\ AllRead
    /\ pc = "readBasicHeader"
    /\ peer' = [peer EXCEPT !.phase = "compressed", !.ref = Messages(out), !.nmsg = 0,
                            !.sent = 0, !.ctx = <<>>]
    /\ out' = <<>>
    /\ messageStreams' = <<>>
    /\ chunk' = NoChunk
    /\ chunk_header' = NoHeader
    /\ yielded' = NoMessage
    /\ lastRead' = [size |-> BlockLen, n |-> BlockLen]
    /\ UNCHANGED <<listener, conn, pc, hs, written, pending, amf, relay, sockbuf, inflight, chunkSizeRef>>

NextEq == PeerSendPlanned \/ Restart \/ Deliver \/ ChunkLayer

InitEq ==
    /\ AfterHandshake
    /\ chunkSizeRef = InitialChunkSize
    /\ \E plan \in EqPlans :
           peer = [plan |-> plan, phase |-> "plain", ref |-> <<>>]
                  @@ [NewPeer EXCEPT !.stage = "chunks"]

SpecEq == InitEq /\ [][NextEq]_vars

-----------------------------------------------------------------------------
(* Protocol control messages on one connection whose handshake is done *)

CtlLengths == {3, 129}

\* the control messages the peer chooses from: two chunk sizes (one with the
\* top bit set), an abort of chunk stream 3, a window, a bandwidth, a ping
CtlMessages ==
    {[type |-> SET_CHUNK_SIZE, payload |-> Bytes(<<0, 0, 0, 2>>)],
     [type |-> SET_CHUNK_SIZE, payload |-> Bytes(<<128, 0, 0, 2>>)],
     [type |-> ABORT, payload |-> Bytes(<<0, 0, 0, 3>>)],
     [type |-> WINDOW_ACKNOWLEDGEMENT_SIZE, payload |-> Bytes(<<0, 0, 0, 3>>)],
     [type |-> SET_PEER_BANDWIDTH, payload |-> Bytes(<<0, 0, 0, 16, 2>>)],
     [type |-> USER_CONTROL, payload |-> Bytes(<<0, PingRequest, 0, 0, 0, 42>>)]}

PeerSendControl ==
    \E m \in CtlMessages : PeerStartMessage(2, 0, m.type, BLen(m.payload), m.payload, 0)

\* connect with transaction id 1 and {app: "live", objectEncoding: 1}, and
\* connect with transaction id 31 and a null command object
ConnectCommands ==
    {Bytes(encodeAMF0Command(Str(STR_connect), Num(Double1),
                             Obj(<<[key |-> STR_app, value |-> Str(STR_live)],
                                   [key |-> STR_objectEncoding, value |-> Num(Double1)]>>),
                             <<>>)),
     Bytes(encodeAMF0Command(Str(STR_connect), Num(Double31), Null, <<>>))}

PeerSendConnect ==
    \E payload \in ConnectCommands :
        PeerStartMessage(3, 0, COMMAND_AMF0, BLen(payload), payload, 0)

PeerSendMedia ==
    \E len \in CtlLengths : PeerStartMessage(3, 0, AUDIO, len, Run(16 + peer.nmsg, len), 0)

PeerContinueCtl == \E csid \in {2, 3} : PeerContinueOn(csid, 0)

NextCtl ==
    \/ PeerSendControl \/ PeerSendConnect \/ PeerSendMedia \/ PeerContinueCtl
    \/ PeerClose \/ Deliver
    \/ ChunkLayer \/ DetachedWrite

SpecCtl == InitChunk /\ [][NextCtl]_vars

\* a task left behind makes its write once it can and as long as the process
\* lives, and segments that were sent arrive
FairCtl == SpecCtl /\ WF_vars(DetachedWrite) /\ WF_vars(Deliver)

-----------------------------------------------------------------------------
(* The whole server with a client always waiting to be accepted *)

\* Accept asks for no client: one is waiting whenever the for await over the
\* listener asks for the next connection, so the loop is never kept waiting.
\* A peer is free to stay silent.
FairAccept == Spec /\ WF_vars(Accept)

-----------------------------------------------------------------------------
(* The chunk layer with a peer that starts a chunk stream with a compressed header *)

\* the peer's first chunk on a chunk stream is of Type 1, 2 or 3, with one
\* byte of payload
PeerSendOrphan ==
    \E csid \in PeerCsids, fmt \in 1..3 :
        /\ PeerActive
        /\ peer.stage = "chunks"
        /\ peer.sent < MaxChunks
        /\ ~Has(peer.ctx, csid)
        /\ inflight' = Append(inflight,
               sendChunk([fmt |-> fmt, chunkStreamId |-> csid, timestamp |-> 0,
                          messageLength |-> 1, messageTypeId |-> AUDIO,
                          messageStreamId |-> PeerStreamId,
                          data |-> Run(16 + peer.nmsg, 1)]))
        /\ peer' = [peer EXCEPT !.sent = @ + 1, !.nmsg = @ + 1]
        /\ UNCHANGED <<listener, conn, pc, hs, written, pending, amf, relay, sockbuf, chunkSizeRef,
                       chunk_header, chunk, messageStreams, yielded, out, lastRead>>

NextOrphan == PeerSendOrphan \/ PeerSendAudio \/ PeerContinue \/ PeerClose \/ Deliver \/ ChunkLayer

SpecOrphan == InitChunk /\ [][NextOrphan]_vars

-----------------------------------------------------------------------------
(* NetConnection and NetStream commands on one connection whose handshake is done *)

\* the numbers 2 to 7 as doubles
DoubleOf(n) ==
    CASE n = 0 -> Double0
      [] n = 1 -> Double1
      [] n = 2 -> <<64, 0, 0, 0, 0, 0, 0, 0>>
      [] n = 3 -> <<64, 8, 0, 0, 0, 0, 0, 0>>
      [] n = 4 -> <<64, 16, 0, 0, 0, 0, 0, 0>>
      [] n = 5 -> <<64, 20, 0, 0, 0, 0, 0, 0>>
      [] n = 6 -> <<64, 24, 0, 0, 0, 0, 0, 0>>
      [] n = 7 -> <<64, 28, 0, 0, 0, 0, 0, 0>>

\* "s", a stream name
STR_s == <<115>>

\* the commands of a publishing or playing client, each with its own
\* transaction id: connect(1, {app: "live"}), createStream(2, null),
\* publish(3, null, "s", "live"), play(4, null, "s"),
\* releaseStream(5, null, "s"), FCPublish(6, null, "s")
WellFormedCommands ==
    {encodeAMF0Command(Str(STR_connect), Num(DoubleOf(1)),
                       Obj(<<[key |-> STR_app, value |-> Str(STR_live)]>>), <<>>),
     encodeAMF0Command(Str(STR_createStream), Num(DoubleOf(2)), Null, <<>>),
     encodeAMF0Command(Str(STR_publish), Num(DoubleOf(3)), Null,
                       <<Str(STR_s), Str(STR_live)>>),
     encodeAMF0Command(Str(STR_play), Num(DoubleOf(4)), Null, <<Str(STR_s)>>),
     encodeAMF0Command(Str(STR_releaseStream), Num(DoubleOf(5)), Null, <<Str(STR_s)>>),
     encodeAMF0Command(Str(STR_FCPublish), Num(DoubleOf(6)), Null, <<Str(STR_s)>>)}

\* payloads cut short: createStream with three of the eight bytes of its
\* transaction id, and connect whose command object has lost its end marker
MalformedCommands ==
    {encodeAMF0Value(Str(STR_createStream)) \o <<AMF0_NUMBER, 64, 0, 0>>,
     encodeAMF0Value(Str(STR_connect)) \o encodeAMF0Value(Num(DoubleOf(7)))
         \o <<AMF0_OBJECT>>}

PeerSendCommand ==
    \E payload \in WellFormedCommands \cup MalformedCommands :
        PeerStartMessage(3, 0, COMMAND_AMF0, Len(payload), Bytes(payload), 0)

NextCmd == PeerSendCommand \/ PeerClose \/ Deliver \/ ChunkLayer

SpecCmd == InitChunk /\ [][NextCmd]_vars

-----------------------------------------------------------------------------
(* A peer that publishes and sends media *)

MediaTypes == {AUDIO, VIDEO, DATA_AMF0}

PeerSendPublish ==
    LET payload == encodeAMF0Command(Str(STR_publish), Num(DoubleOf(3)), Null,
                                     <<Str(STR_s), Str(STR_live)>>)
    IN  PeerStartMessage(3, 0, COMMAND_AMF0, Len(payload), Bytes(payload), 0)

\* a media message of one byte on chunk stream 4
PeerSendMediaMessage ==
    \E type \in MediaTypes : PeerStartMessage(4, 0, type, 1, Run(16 + peer.nmsg, 1), 0)

NextPub == PeerSendPublish \/ PeerSendMediaMessage \/ PeerClose \/ Deliver \/ ChunkLayer

SpecPub == InitChunk /\ [][NextPub]_vars

-----------------------------------------------------------------------------
(* A peer that writes chunk headers of every form with core/chunk.ts sendChunk *)

\* chunk stream ids with a basic header of one, two and three bytes
WideCsids == {3, 64, 320}

\* the first chunk of an audio message of one byte
PeerSendWide ==
    \E csid \in WideCsids, fmt \in 0..3 :
        PeerStartMessage(csid, fmt, AUDIO, 1, Run(16 + peer.nmsg, 1), 0)

NextHdr == PeerSendWide \/ PeerClose \/ Deliver \/ ChunkLayer

SpecHdr == InitChunk /\ [][NextHdr]_vars

-----------------------------------------------------------------------------
(* A peer that sends control messages, one of them a SET_CHUNK_SIZE cut short *)

SizeMessages ==
    CtlMessages \cup {[type |-> SET_CHUNK_SIZE, payload |-> Bytes(<<0, 0, 2>>)]}

PeerSendSize ==
    \E m \in SizeMessages : PeerStartMessage(2, 0, m.type, BLen(m.payload), m.payload, 0)

NextSize == PeerSendSize \/ PeerClose \/ Deliver \/ ChunkLayer \/ DetachedWrite

SpecSize == InitChunk /\ [][NextSize]_vars

-----------------------------------------------------------------------------
(* The codec of core/amf.ts called on one value *)

\* "a"
STR_a == <<97>>
\* "b"
STR_b == <<98>>

\* the length of the long string drawn: more than 65535 bytes
LongLength == 65536
\* a buffer is cut to at most this many bytes
MaxKept == 24

\* the values drawn: numbers, booleans, strings (empty, short, long), null,
\* undefined, objects (empty, with an empty key, nested, keys out of
\* alphabetical order), arrays (empty, nested) and dates (time values 0, 1)
AmfValues ==
    {Num(Double0), Num(Double1), Num(Double31),
     Bool(TRUE), Bool(FALSE),
     Str(<<>>), Str(STR_s), Str(STR_live), Str([i \in 1..LongLength |-> 97]),
     Null, Undef,
     Obj(<<>>),
     Obj(<<[key |-> <<>>, value |-> Num(Double1)]>>),
     Obj(<<[key |-> STR_b, value |-> Str(STR_s)],
           [key |-> STR_a, value |-> Obj(<<[key |-> STR_s, value |-> Null],
                                           [key |-> STR_app, value |-> Undef]>>)]>>),
     Obj(<<[key |-> STR_a, value |-> Arr(<<Bool(TRUE), Date(Double1)>>, 0)]>>),
     Arr(<<>>, 0),
     Arr(<<Num(Double1), Str(STR_s), Arr(<<Undef>>, 0), Obj(<<>>)>>, 0),
     Date(Double0), Date(Double1)}

\* the variables of the server, which a call of the codec leaves alone
server == <<listener, conn, pc, hs, written, sockbuf, inflight, peer, chunkSizeRef,
           chunk_header, chunk, messageStreams, yielded, out, lastRead, pending, relay>>

\* encodeAMF0Value(value)
Encode ==
    /\ amf.stage = "value"
    /\ amf' = [stage |-> "encoded", value |-> amf.value,
               buffer |-> encodeAMF0Value(amf.value), whole |-> TRUE]
    /\ UNCHANGED server

\* the buffer loses its end
Truncate ==
    /\ amf.stage = "encoded"
    /\ amf.whole
    /\ \E n \in 0..Min(Len(amf.buffer) - 1, MaxKept) :
           amf' = [amf EXCEPT !.buffer = SubSeq(amf.buffer, 1, n), !.whole = FALSE]
    /\ UNCHANGED server

\* parseAMF0Value(buffer, 0)
Decode ==
    /\ amf.stage = "encoded"
    /\ amf' = [stage |-> "decoded", value |-> amf.value, buffer |-> amf.buffer,
               whole |-> amf.whole, result |-> parseAMF0Value(amf.buffer, 0)]
    /\ UNCHANGED server

NextAmf == Encode \/ Truncate \/ Decode

\* the server constructed and no connection accepted; one value drawn
InitAmf ==
    /\ listener = "listening"
    /\ conn = 0
    /\ pc = "accept"
    /\ hs = NoHandshake
    /\ written = <<>>
    /\ sockbuf = <<>>
    /\ inflight = <<>>
    /\ peer = [NewPeer EXCEPT !.closed = TRUE]
    /\ chunkSizeRef = InitialChunkSize
    /\ chunk_header = NoHeader
    /\ chunk = NoChunk
    /\ messageStreams = <<>>
    /\ yielded = NoMessage
    /\ out = <<>>
    /\ lastRead = NoRead
    /\ pending = <<>>
    /\ amf \in {[stage |-> "value", value |-> v] : v \in AmfValues}
    /\ relay = NoRelay

SpecAmf == InitAmf /\ [][NextAmf]_vars

-----------------------------------------------------------------------------
(* The control server of core/relay.ts and its requests *)

NextRelay == Request \/ Handler \/ FormData \/ WriteFile

\* the RTMP server constructed and no connection accepted; the control server
\* after its top-level code
InitRelay ==
    /\ listener = "listening"
    /\ conn = 0
    /\ pc = "accept"
    /\ hs = NoHandshake
    /\ written = <<>>
    /\ sockbuf = <<>>
    /\ inflight = <<>>
    /\ peer = [NewPeer EXCEPT !.closed = TRUE]
    /\ chunkSizeRef = InitialChunkSize
    /\ chunk_header = NoHeader
    /\ chunk = NoChunk
    /\ messageStreams = <<>>
    /\ yielded = NoMessage
    /\ out = <<>>
    /\ lastRead = NoRead
    /\ pending = <<>>
    /\ amf = NoCall
    /\ relay = NoRelay

SpecRelay == InitRelay /\ [][NextRelay]_vars

-----------------------------------------------------------------------------
(* Claims about the chunk layer *)

\* the bytes still missing from the message under reassembly on the chunk
\* stream of the chunk whose payload is about to be read
BytesRemaining ==
    IF chunk_header.message_header.type = 0
    THEN chunk_header.message_header.message_length
    ELSE messageStreams[chunk_header.chunk_stream_id].totalLength
         - messageStreams[chunk_header.chunk_stream_id].collectedLength

\* the chunk whose payload is about to be read starts a message with a full
\* header or continues a message that is under reassembly
ChunkOfKnownMessage ==
    /\ pc = "readChunkData"
    /\ \/ chunk_header.message_header.type = 0
       \/ /\ Has(messageStreams, chunk_header.chunk_stream_id)
          /\ messageStreams[chunk_header.chunk_stream_id].collectedLength > 0

\* C2 as stated: messages are emitted in the order in which their final chunks
\* arrived, and two messages of one CSID are never interleaved or reordered.
C2_EmittedInFinalChunkOrder ==
    \A i, j \in DOMAIN out :
        i < j => /\ out[i].last < out[j].last
                 /\ out[i].csid = out[j].csid => out[i].last < out[j].first

\* C2 amended: messages that reach their declared length are emitted in the
\* order in which their final chunks arrived, each while its final chunk is
\* processed; two messages of one CSID are never interleaved or reordered; a
\* partial message cut short by a Type 0 chunk on its CSID is emitted when that
\* chunk arrives, before the message that chunk starts.
C2_EmissionOrder ==
    \A i, j \in DOMAIN out :
        /\ out[i].first <= out[i].last
        /\ IF out[i].partial THEN out[i].last < out[i].trigger
                             ELSE out[i].last = out[i].trigger
        /\ i < j =>
             /\ out[i].trigger <= out[j].trigger
             /\ ~out[i].partial /\ ~out[j].partial => out[i].last < out[j].last
             /\ out[i].csid = out[j].csid => out[i].last < out[j].first

\* C2 witness: a partial message of one CSID was emitted after a message of
\* another CSID whose final chunk arrived later, and two messages of one CSID
\* were emitted.
C2_Witness ==
    /\ \E i, j \in DOMAIN out :
          i < j /\ out[j].partial /\ out[i].csid # out[j].csid /\ out[j].last < out[i].last
    /\ \E i, j \in DOMAIN out : i < j /\ out[i].csid = out[j].csid

\* C7 as stated: the payload read of every chunk asks for exactly
\* min(inbound chunk size, bytes remaining in the message on that CSID).
C7_ReadsMinOfChunkSizeAndRemaining ==
    ChunkOfKnownMessage =>
        sizeToRead(chunk_header, chunkSizeRef) = Min(chunkSizeRef, BytesRemaining)

\* C10 as stated: on every CSID the bytes collected for the message under
\* reassembly never exceed that message's declared payload length.
C10_CollectedWithinLength ==
    \A csid \in DOMAIN messageStreams :
        messageStreams[csid].collectedLength
            <= messageStreams[csid].messageHeader.payload_length

-----------------------------------------------------------------------------
(* Claims about the handshake and the accept loop *)

InHandshake == HandshakeState \in {"Uninitialized", "VersionSent", "AckSent"}

\* what the server has read of C1, and the S2 it wrote
C1Read == Concat(<<hs.c1_time, hs.c1_zero, hs.c1_randome>>)

S2Written == Concat(SubSeq(written, 5, 7))

\* C3: the handshake goes Uninitialized, VersionSent, AckSent, Done and no
\* step is taken early: S0 and S1 are written only after C0 was read and is 3,
\* S2 only after all 1536 bytes of C1 were read, Done is entered only after C2
\* was read and verified, nothing of the chunk layer happens before Done, and
\* after a C0 other than 3 nothing is written and Done is never entered.
C3_HandshakeOrder ==
    /\ HandshakeState = "Uninitialized" => written = <<>>
    /\ HandshakeState = "VersionSent" => Len(written) = 4
    /\ HandshakeState = "AckSent" => Len(written) = 7
    /\ written # <<>> => hs.c0 = Bytes(<<RtmpVersion>>)
    /\ Len(written) > 4 => C1Read = peer.c1
    /\ HandshakeState = "Done" =>
         /\ Len(written) = 7
         /\ hs.c2 = peer.c2
         /\ c2Verified(hs.c2, hs.s1_time, s1_zero, hs.s1_random)
    /\ InHandshake => chunk_header = NoHeader /\ chunk = NoChunk /\ out = <<>>
    /\ hs.c0 \notin {<<>>, Bytes(<<RtmpVersion>>)} =>
         written = <<>> /\ HandshakeState = "None"

\* C4: a C2 that differs from S1 in some byte is rejected: the connection
\* it came on never enters Done and no message is emitted for it.
C4_DifferingC2Rejected ==
    peer.stage = "chunks" /\ conn > 0 /\ peer.c2 # S1Written =>
        HandshakeState # "Done" /\ out = <<>>

\* the handshake of the connection being served has failed
HandshakeFailed ==
    /\ pc = "exit"
    /\ ~(hs.c2 # <<>> /\ c2Verified(hs.c2, hs.s1_time, s1_zero, hs.s1_random))

\* C5: a failed handshake (C0 other than 3, end of stream in C0, C1 or C2, or
\* an echo mismatch) ends only its connection: the listener keeps listening.
C5_ListenerSurvivesHandshakeFailure == HandshakeFailed => listener = "listening"

\* C6 as stated: the S2 the server writes passes the three-field validation
\* against C1: bytes 0..4 are C1.time, 4..8 are C1.zero, 8..1536 are C1.random.
C6_S2PassesEchoValidation ==
    Len(written) >= 7 => c2Verified(S2Written, hs.c1_time, hs.c1_zero, hs.c1_randome)

\* C6: the S2 the server writes is c1_time, c1_time again, and c1_randome, as
\* it read them; it passes the three-field validation against C1 exactly when
\* C1.time and C1.zero are the same four bytes.
C6_S2EchoesTimeTwice ==
    Len(written) >= 7 =>
        /\ S2Written = Concat(<<hs.c1_time, hs.c1_time, hs.c1_randome>>)
        /\ BSlice(S2Written, 0, 4) = hs.c1_time
        /\ BSlice(S2Written, 8, 1536) = hs.c1_randome
        /\ c2Verified(S2Written, hs.c1_time, hs.c1_zero, hs.c1_randome)
             <=> hs.c1_time = hs.c1_zero

C6_Witness ==
    /\ Len(written) >= 7
    /\ hs.c1_time # hs.c1_zero
    /\ BLen(S2Written) = BlockLen
    /\ ~c2Verified(S2Written, hs.c1_time, hs.c1_zero, hs.c1_randome)

\* C8: a read of N bytes hands its caller N bytes or the connection fails; a
\* shorter piece is never used as if it were complete.
C8_ReadIsExactOrFails ==
    lastRead.n >= 0 /\ lastRead.n < lastRead.size => pc = "exit"

-----------------------------------------------------------------------------
(* Claims about the writer and the reader together *)

\* C1: the chunks sendMessage writes for a message, read back with the same
\* chunk size, give exactly one message, with the type, the length, the message
\* stream id and the payload that were sent.
C1_RoundTrip ==
    /\ Len(out) <= 1
    /\ \A k \in DOMAIN out :
          /\ out[k].message.header.type = peer.message.type
          /\ out[k].message.header.payload_length = BLen(peer.message.payload)
          /\ out[k].message.header.message_stream_id = peer.messageStreamId
          /\ out[k].message.payload = peer.message.payload
    /\ peer.todo = <<>> /\ AllRead => Len(out) = 1

\* C9: messages whose later ones start with Type 1, 2 or 3 headers are read as
\* the same message records as when every one starts with a Type 0 header.
C9_CompressedHeadersReadTheSame ==
    peer.phase = "compressed" /\ peer.nmsg = Len(peer.plan) /\ AllRead =>
        Messages(out) = peer.ref

-----------------------------------------------------------------------------
(* Claims about the messages delivered to the dispatcher *)

\* C11: every message delivered to the dispatcher has a payload whose length
\* is the payload_length of its own header, also when it began with a Type 1,
\* 2 or 3 chunk after a message on its CSID was complete.
C11_PayloadSizedToHeader ==
    \A k \in DOMAIN out :
        BLen(out[k].message.payload) = out[k].message.header.payload_length

\* the read path of the connection has ended: readChunk returned null or a
\* read threw while messagesFromChunks was waiting for a chunk
ReadPathEnded == pc \in {"accept", "exit"} /\ conn > 0 /\ yielded = NoMessage

\* the message under reassembly on csid has fewer bytes than its length
PartialOn(csid) ==
    /\ Has(messageStreams, csid)
    /\ messageStreams[csid].chunks # <<>>
    /\ messageStreams[csid].collectedLength < messageStreams[csid].totalLength

-----------------------------------------------------------------------------
(* Claims about the protocol control messages *)

\* the messages the dispatcher has finished with
Handled == IF pc = "handleMessage" THEN SubSeq(out, 1, Len(out) - 1) ELSE out

\* a SET_CHUNK_SIZE message the handler accepts
IsSetChunkSize(message) ==
    message.header.type = SET_CHUNK_SIZE /\ BLen(message.payload) >= 4

\* the payload of the last accepted SET_CHUNK_SIZE of emitted; without one,
\* the payload that spells the initial chunk size
LastSetChunkSize(emitted) ==
    LET S == {k \in DOMAIN emitted : IsSetChunkSize(emitted[k].message)}
    IN  IF S = {} THEN Bytes(<<0, 0, 0, InitialChunkSize>>)
        ELSE emitted[CHOOSE k \in S : \A j \in S : j <= k].message.payload

\* C13: once a SET_CHUNK_SIZE message has been handled, every read of a chunk
\* is made with the chunk size that message carried: the reader is never
\* waiting for a chunk while chunkSizeRef still holds an older value.
C13_ChunkSizeInEffectBeforeNextRead ==
    pc \in {"readBasicHeader", "readMessageHeader", "readChunkData"} =>
        LET v == LastSetChunkSize(out)
        IN  chunkSizeRef = ShiftOr4(BAt(v, 0), BAt(v, 1), BAt(v, 2), BAt(v, 3))

\* a three-byte message has been put together from chunks of two bytes
C13_Witness ==
    /\ pc = "readBasicHeader"
    /\ chunkSizeRef = 2
    /\ \E k \in DOMAIN out :
           /\ out[k].message.header.type = AUDIO
           /\ BLen(out[k].message.payload) = 3
           /\ out[k].last > out[k].first
           /\ \E j \in 1..(k - 1) : IsSetChunkSize(out[j].message)

\* the 31-bit value of four big-endian bytes
Masked31(b0, b1, b2, b3) == (b0 % 128) * 16777216 + b1 * 65536 + b2 * 256 + b3

\* C14: after a SET_CHUNK_SIZE message with payload v the chunk size is
\* v mod 2^31, and so never negative.
C14_ChunkSizeIsMasked ==
    LET v == LastSetChunkSize(Handled)
    IN  chunkSizeRef = Masked31(BAt(v, 0), BAt(v, 1), BAt(v, 2), BAt(v, 3))

\* C15: every connection starts with chunk size 128 and with no chunk stream
\* context or partial message, whatever earlier connections received.
C15_ConnectionStartsFresh ==
    pc = "readC0" => chunkSizeRef = InitialChunkSize /\ messageStreams = <<>>

\* the buffers written that begin a message: a Type 0 chunk on chunk stream 2
\* or 3, the two streams the server writes on
IsMessageStart(buf) == BLen(buf) >= 12 /\ BAt(buf, 0) \in {2, 3}

\* type and first payload bytes of the messages written so far, in order
WrittenMessages ==
    LET starts == SelectSeq(written, IsMessageStart)
    IN  [k \in DOMAIN starts |->
            [type |-> BAt(starts[k], 7),
             length |-> byte_3_to_number(BSlice(starts[k], 4, 7)),
             csid |-> BAt(starts[k], 0),
             payload |-> BDrop(starts[k], 12)]]

\* C16: when the bytes received since a WINDOW_ACKNOWLEDGEMENT_SIZE message
\* reach the window it announced, an ACKNOWLEDGEMENT has been written: here,
\* once a later message whose payload alone fills the window has been handled.
C16_AckWhenWindowReached ==
    \A i \in DOMAIN Handled :
        LET m == Handled[i].message
        IN  /\ m.header.type = WINDOW_ACKNOWLEDGEMENT_SIZE
            /\ BLen(m.payload) >= 4
            /\ \E j \in DOMAIN Handled :
                   j > i /\ BLen(Handled[j].message.payload) >= byte_4_to_number(m.payload)
            => \E k \in DOMAIN WrittenMessages : WrittenMessages[k].type = ACKNOWLEDGEMENT

\* C17: after an ABORT naming chunk stream c has been handled, no message
\* delivered on c contains a chunk that arrived before the ABORT.
C17_AbortDiscardsPartial ==
    \A i \in DOMAIN Handled :
        LET m == Handled[i].message
        IN  m.header.type = ABORT /\ BLen(m.payload) >= 4 =>
                \A j \in DOMAIN out :
                    j > i /\ out[j].csid = byte_4_to_number(m.payload) =>
                        out[j].first > Handled[i].trigger

IsPing(message) ==
    /\ message.header.type = USER_CONTROL
    /\ BLen(message.payload) >= 2
    /\ BAt(message.payload, 0) = 0
    /\ BAt(message.payload, 1) = PingRequest

\* the ping requests handled so far
Pings == SelectSeq([k \in DOMAIN Handled |-> Handled[k].message], IsPing)

IsPong(w) ==
    w.type = USER_CONTROL /\ BAt(w.payload, 0) = 0 /\ BAt(w.payload, 1) = PingResponse

\* the ping responses written so far
Pongs == SelectSeq(WrittenMessages, IsPong)

\* C18: for every ping request handled, a ping response with the request's
\* bytes after the event type is eventually written.
C18_PingAnswered ==
    \A n \in 1..MaxChunks :
        (Len(Pings) >= n) ~>
            (Len(Pongs) >= n /\ BDrop(Pongs[n].payload, 2) = BDrop(Pings[n].payload, 2))

\* C19: while the server waits for inbound bytes, every reply it owes has
\* been written.
C19_RepliesWrittenBeforeNextRead ==
    pc \in {"readBasicHeader", "readMessageHeader", "readChunkData"} => pending = <<>>

IsConnect(message) ==
    /\ IsCommand(message)
    /\ parseAMF0Command(ByteSeq(message.payload)).status = "ok"
    /\ parseAMF0Command(ByteSeq(message.payload)).commandName = Str(STR_connect)

\* the connect commands handled so far
Connects == SelectSeq([k \in DOMAIN Handled |-> Handled[k].message], IsConnect)

\* the written message at position k is the _result of a connect with
\* transaction id tid and the three messages before it are
\* WINDOW_ACKNOWLEDGEMENT_SIZE(2500000), SET_PEER_BANDWIDTH(2500000, 2) and
\* StreamBegin(0), each written whole
IsConnectReply(W, k, tid) ==
    /\ k >= 4
    /\ W[k - 3].type = WINDOW_ACKNOWLEDGEMENT_SIZE
    /\ W[k - 3].payload = Bytes(<<0, 38, 37, 160>>)
    /\ W[k - 2].type = SET_PEER_BANDWIDTH
    /\ W[k - 2].payload = Bytes(<<0, 38, 37, 160, 2>>)
    /\ W[k - 1].type = USER_CONTROL
    /\ W[k - 1].payload = Run(0, 6)
    /\ \A j \in (k - 3)..k : BLen(W[j].payload) = W[j].length
    /\ LET reply == parseAMF0Command(ByteSeq(W[k].payload))
       IN  /\ reply.status = "ok"
           /\ reply.commandName = Str(STR__result)
           /\ reply.transactionId = tid
           /\ Len(reply.additionalParams) = 1
           /\ reply.additionalParams[1].t = "object"
           /\ \E i \in DOMAIN reply.additionalParams[1].props :
                  reply.additionalParams[1].props[i] =
                      [key |-> STR_code, value |-> Str(STR_ConnectSuccess)]

\* C20: every connect command handled has been answered by exactly four
\* messages written in this order: WINDOW_ACKNOWLEDGEMENT_SIZE(2500000),
\* SET_PEER_BANDWIDTH(2500000, 2), StreamBegin(0) and a _result with the
\* command's transaction id and code NetConnection.Connect.Success.
C20_ConnectAnsweredByFour ==
    LET W == WrittenMessages
        R == {k \in DOMAIN W : W[k].type = COMMAND_AMF0}
    IN  /\ Cardinality(R) = Len(Connects)
        /\ Len(W) = 4 * Len(Connects)
                    + Cardinality({k \in DOMAIN Handled :
                                       Handled[k].message.header.type = SET_PEER_BANDWIDTH})
                    + Len(Pongs)
        /\ \A k \in R :
               IsConnectReply(W, k, parseAMF0Command(ByteSeq(
                   Connects[Cardinality({j \in R : j <= k})].payload)).transactionId)

-----------------------------------------------------------------------------
(* Claims about the commands *)

\* "_error"
STR__error == <<95, 101, 114, 114, 111, 114>>

\* the messages that begin in the buffers bufs, in order
MessagesIn(bufs) ==
    [k \in DOMAIN SelectSeq(bufs, IsMessageStart) |->
        [type |-> BAt(SelectSeq(bufs, IsMessageStart)[k], 7),
         payload |-> BDrop(SelectSeq(bufs, IsMessageStart)[k], 12)]]

\* the messages written by the step
Replies == MessagesIn(SubSeq(written', Len(written) + 1, Len(written')))

IsCommandWritten(m) == m.type = COMMAND_AMF0

\* the commands among the messages msgs, decoded
CommandsIn(msgs) ==
    [k \in DOMAIN SelectSeq(msgs, IsCommandWritten) |->
        parseAMF0Command(ByteSeq(SelectSeq(msgs, IsCommandWritten)[k].payload))]

CommandOf(message) == parseAMF0Command(ByteSeq(message.payload))

\* message is a command that decodes and is called name
Named(message, name) ==
    /\ IsCommand(message)
    /\ CommandOf(message).status = "ok"
    /\ CommandOf(message).commandName = Str(name)

\* the step in which the handling of a command called name ends
Handles(name) ==
    pc = "handleMessage" /\ pc' # "handleMessage" /\ Named(yielded.message, name)

\* one of the commands cmds is called name
HasCommand(cmds, name) == \E k \in DOMAIN cmds : cmds[k].commandName = Str(name)

\* a connect has been handled on the connection
Connected == \E k \in DOMAIN Handled : IsConnect(Handled[k].message)

\* the step answers with _error and nothing else, and the connection goes on
RefusedWith(cmds) ==
    /\ HasCommand(cmds, STR__error)
    /\ ~HasCommand(cmds, STR__result)
    /\ ~HasCommand(cmds, STR_onStatus)
    /\ listener' = "listening"
    /\ pc' = "readBasicHeader"
    /\ chunkSizeRef' = chunkSizeRef

\* C21: a publish or play handled before any connect, and a connect handled
\* after a connect, is answered with _error and with no success reply, and
\* the connection stays open.
C21_CommandsOnlyInTheirState ==
    [][(\/ (Handles(STR_publish) \/ Handles(STR_play)) /\ ~Connected
        \/ Handles(STR_connect) /\ Connected)
       => RefusedWith(CommandsIn(Replies))]_vars

\* the reply to a createStream: _result(tid, null, streamId)
IsCreateStreamReply(c) ==
    /\ c.status = "ok"
    /\ c.commandName = Str(STR__result)
    /\ c.commandObject = Null
    /\ Len(c.additionalParams) = 1
    /\ c.additionalParams[1].t = "number"

\* a < b for doubles that are not negative
DoubleLess(a, b) == \E i \in 1..8 : a[i] < b[i] /\ \A j \in 1..(i - 1) : a[j] = b[j]

\* the stream ids ids are at least 1 and each greater than those before it
Increasing(ids) ==
    /\ \A k \in DOMAIN ids : ids[k][1] < 128 /\ ~DoubleLess(ids[k], Double1)
    /\ \A i, j \in DOMAIN ids : i < j => DoubleLess(ids[i], ids[j])

StreamIds(replies) == [k \in DOMAIN replies |-> replies[k].additionalParams[1].bits]

\* C22: the stream ids of the createStream replies written on the connection
\* are at least 1 and strictly increasing.
C22_StreamIdsIncrease ==
    Increasing(StreamIds(SelectSeq(CommandsIn(MessagesIn(written)), IsCreateStreamReply)))

\* every _result among cmds carries tid, every onStatus carries 0 and null
Correlated(cmds, tid) ==
    \A k \in DOMAIN cmds :
        /\ cmds[k].status = "ok"
        /\ cmds[k].commandName = Str(STR__result) => cmds[k].transactionId = tid
        /\ cmds[k].commandName = Str(STR_onStatus) =>
               cmds[k].transactionId = Num(Double0) /\ cmds[k].commandObject = Null

\* C23: the _result written while a command is handled carries the
\* transaction id of that command, and an onStatus written carries
\* transaction id 0 and a null command object.
C23_RepliesCarryTransactionId ==
    [][pc = "handleMessage" /\ pc' # "handleMessage" /\ IsCommand(yielded.message)
       /\ CommandOf(yielded.message).status = "ok"
       => Correlated(CommandsIn(Replies), CommandOf(yielded.message).transactionId)]_vars

\* a createStream, a releaseStream and a publish have been answered: _result
\* with transaction ids 2 and 5 and an onStatus are among the messages written
C23_Witness ==
    /\ \E k \in DOMAIN Handled : Named(Handled[k].message, STR_createStream)
    /\ \E k \in DOMAIN Handled : Named(Handled[k].message, STR_releaseStream)
    /\ \E k \in DOMAIN Handled : Named(Handled[k].message, STR_publish)
    /\ \E k \in DOMAIN CommandsIn(MessagesIn(written)) :
           /\ CommandsIn(MessagesIn(written))[k].commandName = Str(STR__result)
           /\ CommandsIn(MessagesIn(written))[k].transactionId = Num(DoubleOf(2))
    /\ \E k \in DOMAIN CommandsIn(MessagesIn(written)) :
           /\ CommandsIn(MessagesIn(written))[k].commandName = Str(STR__result)
           /\ CommandsIn(MessagesIn(written))[k].transactionId = Num(DoubleOf(5))
    /\ HasCommand(CommandsIn(MessagesIn(written)), STR_onStatus)

\* value[key] of an object, undefined without such a property
Get(value, key) ==
    IF value.t = "object" /\ \E k \in DOMAIN value.props : value.props[k].key = key
    THEN value.props[CHOOSE k \in DOMAIN value.props : value.props[k].key = key].value
    ELSE Undef

\* msgs are StreamBegin(n) and then onStatus with code NetStream.Publish.Start
\* for the stream called name
PublishStarted(msgs, n, name) ==
    /\ Len(msgs) = 2
    /\ msgs[1].type = USER_CONTROL
    /\ msgs[1].payload = BCat(Bytes(<<0, 0>>), Int32Bytes(n))
    /\ msgs[2].type = COMMAND_AMF0
    /\ CommandOf(msgs[2]).status = "ok"
    /\ CommandOf(msgs[2]).commandName = Str(STR_onStatus)
    /\ Len(CommandOf(msgs[2]).additionalParams) = 1
    /\ Get(CommandOf(msgs[2]).additionalParams[1], STR_code) = Str(STR_PublishStart)
    /\ Get(CommandOf(msgs[2]).additionalParams[1], STR_description)
           = Str(STR_StartedPublishing \o name \o STR_Dot)
    /\ Get(CommandOf(msgs[2]).additionalParams[1], STR_details) = Str(name)

\* the stream ids returned so far, each as the integer it is
Returned(ids) == {n \in 0..7 : \E k \in DOMAIN ids : ids[k] = DoubleOf(n)}

\* C24: a publish of a named stream handled after a createStream was
\* answered writes StreamBegin of the stream id returned and then the
\* onStatus NetStream.Publish.Start naming the stream, in this order.
C24_PublishAnswered ==
    [][Handles(STR_publish)
       /\ Param(CommandOf(yielded.message).additionalParams, 0).t = "string"
       /\ SelectSeq(CommandsIn(MessagesIn(written)), IsCreateStreamReply) # <<>>
       => \E n \in Returned(StreamIds(SelectSeq(CommandsIn(MessagesIn(written)),
                                                 IsCreateStreamReply))) :
              PublishStarted(Replies, n,
                             Param(CommandOf(yielded.message).additionalParams, 0).s)]_vars

\* a publish has been handled after a createStream, and its onStatus written
C24_Witness ==
    /\ \E i, j \in DOMAIN Handled :
           /\ i < j
           /\ Named(Handled[i].message, STR_createStream)
           /\ Named(Handled[j].message, STR_publish)
    /\ HasCommand(CommandsIn(MessagesIn(written)), STR_onStatus)

\* C27: a COMMAND message whose payload is cut short is answered with _error
\* and the connection goes on to read the next chunk.
C27_MalformedCommandRefused ==
    [][pc = "handleMessage" /\ pc' # "handleMessage" /\ IsCommand(yielded.message)
       /\ ByteSeq(yielded.message.payload) \in MalformedCommands
       => /\ HasCommand(CommandsIn(Replies), STR__error)
          /\ listener' = "listening"
          /\ pc' = "readBasicHeader"]_vars

-----------------------------------------------------------------------------
(* Claims about the codec *)

C26_TruncatedFails ==
    amf.stage = "decoded" /\ ~amf.whole => amf.result.status # "ok"

-----------------------------------------------------------------------------
(* Claims about connections and their end *)

\* the first connection is open, past its handshake and waits for bytes that
\* its peer has not sent, and no other connection has been accepted
FirstIdle ==
    /\ conn = 1
    /\ listener = "listening"
    /\ pc \in {"readBasicHeader", "readMessageHeader", "readChunkData"}
    /\ sockbuf = <<>>
    /\ inflight = <<>>
    /\ ~peer.closed

\* C28: the server does not stay with the first connection alone for as long
\* as that connection is open and silent: the second connection is accepted
\* while the first waits.
C28_SecondConnectionServed == FirstIdle ~> ~FirstIdle

\* C29: when the read of a basic header meets the end of the stream, the
\* connection ends and the listener goes on to the next connection.
C29_EndOfStreamIsNormalClose ==
    [][pc = "readBasicHeader" /\ lastRead' = [size |-> 1, n |-> -1]
       => listener' = "listening" /\ pc' = "accept"]_vars

\* C30: when the first chunk of a connection is of Type 1, 2 or 3, the
\* connection is ended: the server does not go on to read or to dispatch.
C30_OrphanChunkEndsConnection ==
    [][/\ pc = "readChunkData"
       /\ chunk.seq = 0
       /\ chunk'.seq = 1
       /\ chunk'.header.message_header.type # 0
       => pc' \notin {"readBasicHeader", "readMessageHeader", "readChunkData",
                      "handleMessage"}]_vars

-----------------------------------------------------------------------------
(* the chunk size of the chunks the server writes *)

\* the writes of the connection after the handshake, one chunk each
ChunksWritten == SubSeq(written, Len(AfterHandshakeWrites) + 1, Len(written))

\* the payload bytes of a written chunk: what follows the one-byte basic
\* header and, in a Type 0 chunk, the eleven bytes of the message header
PayloadBytes(buf) == IF BAt(buf, 0) \div 64 = 0 THEN BLen(buf) - 12 ELSE BLen(buf) - 1

\* a written chunk that starts a SET_CHUNK_SIZE message
TellsChunkSize(buf) ==
    BAt(buf, 0) \div 64 = 0 /\ BLen(buf) >= 16 /\ BAt(buf, 7) = SET_CHUNK_SIZE

\* the chunk size the peer has been told by the first k chunks written
ToldChunkSize(k) ==
    LET S == {j \in 1..k : TellsChunkSize(ChunksWritten[j])}
    IN  IF S = {} THEN InitialChunkSize
        ELSE byte_4_to_number(BSlice(ChunksWritten[CHOOSE j \in S : \A i \in S : i <= j],
                                     12, 16))

\* C31: no chunk the server writes carries more payload bytes than the chunk
\* size the peer has been told, which is 128 until the server writes a
\* SET_CHUNK_SIZE message.
C31_ChunksWithinToldSize ==
    \A k \in DOMAIN ChunksWritten :
        PayloadBytes(ChunksWritten[k]) <= ToldChunkSize(k - 1)

-----------------------------------------------------------------------------
(* the chunks of one sendMessage *)

\* the chunks of the call: those written and those still to write
ChunksOfCall == peer.wrote \o peer.todo

\* ceil(L / S)
CeilDiv(L, S) == (L + S - 1) \div S

\* the payload bytes of the k-th chunk of the call
PayloadOfChunk(k) == BDrop(ChunksOfCall[k], IF k = 1 THEN 12 ELSE 1)

RECURSIVE PayloadsFrom(_)
PayloadsFrom(k) ==
    IF k > Len(ChunksOfCall) THEN <<>> ELSE BCat(PayloadOfChunk(k), PayloadsFrom(k + 1))

\* the first chunk is of Type 0 on the CSID and carries the length, the type
\* and the message stream id of the message
FullHeader(buf) ==
    /\ BAt(buf, 0) = peer.chunkStreamId
    /\ byte_3_to_number(BSlice(buf, 4, 7)) = BLen(peer.message.payload)
    /\ BAt(buf, 7) = peer.message.type
    /\ BAt(buf, 8) + 256 * BAt(buf, 9) + 65536 * BAt(buf, 10) + 16777216 * BAt(buf, 11)
          = peer.messageStreamId

\* C32: sendMessage with a payload of L bytes and chunk size S writes
\* ceil(L/S) chunks on the CSID: the first of Type 0 with the full header, the
\* others of Type 3 with no message header; each but the last carries S payload
\* bytes, the last carries the rest, and the payloads together are the payload
\* of the message.
C32_WriterFragmentation ==
    LET L == BLen(peer.message.payload)
        S == peer.chunkSize
        N == CeilDiv(L, S)
    IN  /\ Len(ChunksOfCall) = N
        /\ N > 0 => FullHeader(ChunksOfCall[1])
        /\ \A k \in 2..N : ChunksOfCall[k][1] = [b |-> 3 * 64 + peer.chunkStreamId, n |-> 1]
        /\ \A k \in 1..(N - 1) : BLen(PayloadOfChunk(k)) = S
        /\ N > 0 => BLen(PayloadOfChunk(N)) = L - S * (N - 1)
        /\ PayloadsFrom(1) = peer.message.payload

\* a message of 300 bytes has been written with chunk size 128 in chunks of
\* 128, 128 and 44 payload bytes
C32_Witness ==
    /\ BLen(peer.message.payload) = 300
    /\ peer.chunkSize = 128
    /\ peer.todo = <<>>
    /\ Len(peer.wrote) = 3
    /\ BLen(PayloadOfChunk(1)) = 128
    /\ BLen(PayloadOfChunk(2)) = 128
    /\ BLen(PayloadOfChunk(3)) = 44

-----------------------------------------------------------------------------
(* media messages and the consumer *)

IsMedia(message) == message.header.type \in MediaTypes

\* a publish command has been handled on the connection; the handler accepts
\* every publish
Publishing == \E k \in DOMAIN Handled : Named(Handled[k].message, STR_publish)

\* C33: an AUDIO, VIDEO or DATA_AMF0 message is handed on to the consumer
\* exactly when a publish has been accepted on the connection: once then, and
\* not at all before.
C33_MediaForwardedWhenPublishing ==
    [][pc = "handleMessage" /\ pc' # "handleMessage" /\ IsMedia(yielded.message)
       => forwardedOf(yielded.message)
              = IF Publishing THEN <<yielded.message>> ELSE <<>>]_vars

-----------------------------------------------------------------------------
(* the bytes of a chunk header *)

\* the step in which readBasicHeader returns
BasicHeaderRead == pc = "readBasicHeader" /\ pc' \in {"readMessageHeader", "readChunkData"}

\* the step in which readMessageHeader returns a header it has read
MessageHeaderRead == pc = "readMessageHeader" /\ pc' = "readChunkData"

\* the bytes the step takes from the connection
Consumed == BLen(sockbuf) - BLen(sockbuf')

\* the format the step has decoded
FmtDecoded ==
    IF pc' = "readMessageHeader" THEN chunk_header'.fmt ELSE chunk_header'.message_header.type

\* C34: for a first byte b the reader decodes fmt = b >> 6 and, with
\* csid_lsb = b & 0x3F: it takes one more byte x and CSID = x + 64 when
\* csid_lsb = 0, two more bytes lo, hi and CSID = lo + (hi << 8) + 64 when
\* csid_lsb = 1, and no more bytes and CSID = csid_lsb otherwise; the CSID is
\* never 0 or 1.
C34_BasicHeaderDecoded ==
    [][BasicHeaderRead
       => LET b == BAt(sockbuf, 0)
              csid_lsb == b % 64
          IN  /\ FmtDecoded = b \div 64
              /\ csid_lsb = 0 => /\ Consumed = 2
                                 /\ chunk_header'.chunk_stream_id = BAt(sockbuf, 1) + 64
              /\ csid_lsb = 1 => /\ Consumed = 3
                                 /\ chunk_header'.chunk_stream_id
                                        = BAt(sockbuf, 1) + 256 * BAt(sockbuf, 2) + 64
              /\ csid_lsb > 1 => /\ Consumed = 1
                                 /\ chunk_header'.chunk_stream_id = csid_lsb
              /\ chunk_header'.chunk_stream_id \notin {0, 1}]_vars

\* C35: the reader takes 11, 7, 3 and 0 bytes of message header for Type 0,
\* 1, 2 and 3, so that the next byte it takes is the first payload byte of
\* the chunk.
C35_MessageHeaderBytes ==
    [][/\ MessageHeaderRead
          => Consumed = CASE chunk_header.fmt = 0 -> 11
                          [] chunk_header.fmt = 1 -> 7
                          [] chunk_header.fmt = 2 -> 3
       /\ BasicHeaderRead /\ pc' = "readChunkData" => Consumed = 1]_vars

\* C36: the message stream id of a Type 0 header is decoded little-endian,
\* b0 + b1*2^8 + b2*2^16 + b3*2^24, as sendChunk writes it.
C36_StreamIdLittleEndian ==
    [][MessageHeaderRead /\ chunk_header.fmt = 0
       => chunk_header'.message_header.message_stream_id
              = BAt(sockbuf, 7) + 256 * BAt(sockbuf, 8) + 65536 * BAt(sockbuf, 9)
                + 16777216 * BAt(sockbuf, 10)]_vars

-----------------------------------------------------------------------------
(* a Type 0 chunk on a chunk stream whose message is incomplete *)

\* the chunk data a message stream has collected, in order
RECURSIVE CollectedFrom(_, _)
CollectedFrom(chunks, k) ==
    IF k > Len(chunks) THEN <<>> ELSE BCat(chunks[k].data, CollectedFrom(chunks, k + 1))

\* the message stream has collected more than 0 and fewer than payload_length bytes
Incomplete(messageStream) ==
    /\ messageStream.collectedLength > 0
    /\ messageStream.collectedLength < messageStream.messageHeader.payload_length

\* the step in which readChunk returns a Type 0 chunk on a chunk stream whose
\* message is incomplete
Type0OnIncomplete ==
    /\ pc = "readChunkData"
    /\ chunk'.seq = chunk.seq + 1
    /\ chunk_header.message_header.type = 0
    /\ Has(messageStreams, chunk_header.chunk_stream_id)
    /\ Incomplete(messageStreams[chunk_header.chunk_stream_id])

\* the reassembler yields what the message stream has collected, under the
\* header the message stream has, and has not touched the message stream
PartialEmitted(messageStream) ==
    /\ pc' = "handleMessage"
    /\ yielded'.message.header = messageStream.messageHeader
    /\ BTake(yielded'.message.payload, messageStream.collectedLength)
          = CollectedFrom(messageStream.chunks, 1)
    /\ BDrop(yielded'.message.payload, messageStream.collectedLength)
          = Run(0, messageStream.totalLength - messageStream.collectedLength)
    /\ messageStreams' = messageStreams

\* the step in which the reassembler goes on after the partial message was handled
AfterPartial == pc = "handleMessage" /\ pc' # "handleMessage" /\ yielded.resume = "start"

\* the message on the chunk stream of chunk c is made of c alone, under the
\* header of c: it is under way with the data of c, or it is yielded with them
StartedFrom(c) ==
    LET header == c.header.message_header
        csid == c.header.chunk_stream_id
    IN  IF BLen(c.data) >= header.message_length
        THEN /\ pc' = "handleMessage"
             /\ yielded'.message.header.payload_length = header.message_length
             /\ yielded'.message.payload = BTake(c.data, header.message_length)
             /\ yielded'.first = c.seq
        ELSE /\ pc' = "readBasicHeader"
             /\ messageStreams'[csid].messageHeader.payload_length = header.message_length
             /\ messageStreams'[csid].collectedLength = BLen(c.data)
             /\ Len(messageStreams'[csid].chunks) = 1
             /\ messageStreams'[csid].chunks[1].data = c.data

\* C37: when a Type 0 chunk arrives on a CSID whose message has collected more
\* than 0 and fewer than payload_length bytes, the reassembler first yields the
\* partial message under the old header and then starts a new message from the
\* Type 0 header; no byte of the new chunk is in the partial message and no
\* byte of the partial message is in the new one.
C37_LenientType0 ==
    [][/\ Type0OnIncomplete
          => PartialEmitted(messageStreams[chunk_header.chunk_stream_id])
       /\ AfterPartial => StartedFrom(chunk)]_vars

\* a partial message has been handled and the Type 0 chunk that made the
\* reassembler yield it is the only chunk of the message now under way
C37_Witness ==
    /\ pc = "readBasicHeader"
    /\ \E k \in DOMAIN out :
          /\ out[k].resume = "start"
          /\ out[k].trigger = chunk.seq
          /\ BLen(out[k].message.payload) = 129
          /\ messageStreams[out[k].csid].chunks = <<chunk>>

-----------------------------------------------------------------------------
(* what changes the chunk size of the reader *)

\* C38: the chunk size the reader uses changes only when a SET_CHUNK_SIZE
\* message with a payload of four bytes or more is dispatched: a message of
\* another type, or a SET_CHUNK_SIZE message with a shorter payload, leaves it
\* as it was.
C38_ChunkSizeChangesOnlyOnSetChunkSize ==
    [][chunkSizeRef' # chunkSizeRef
       => pc = "handleMessage" /\ IsSetChunkSize(yielded.message)]_vars

\* a SET_CHUNK_SIZE message of three bytes and an ABORT message have been
\* dispatched and the chunk size is the initial one
C38_Witness ==
    /\ chunkSizeRef = InitialChunkSize
    /\ \E j \in DOMAIN Handled :
          /\ Handled[j].message.header.type = SET_CHUNK_SIZE
          /\ BLen(Handled[j].message.payload) = 3
    /\ \E k \in DOMAIN Handled : Handled[k].message.header.type = ABORT

-----------------------------------------------------------------------------
(* the end of a call of the decoder *)

\* C39: the decoder returns or throws on every buffer, one that ends before
\* the end marker of an Object or an ECMA-Array included: no call of it runs
\* for ever.
C39_DecodingTerminates == amf.stage = "decoded" => amf.result.status # "loop"

-----------------------------------------------------------------------------
(* the child process of the control server *)

\* C40: run_ffmpeg is entered at most once in the life of the control server,
\* however the GET /start requests interleave, so that at most one ffmpeg
\* child is spawned.
C40_AtMostOneFfmpeg == relay.entered <= 1 /\ relay.spawned <= 1

====
